---- MODULE Spec2Model ----
(***************************************************************************)
(* Model of the gurukul-ai MCP server (src/verify.js, lines 116-5095):     *)
(* the SqlProxy, the advertised tool list (ListTools), the tool            *)
(* dispatcher (CallTool) and the Express transport wiring (/sse,           *)
(* /messages).                                                             *)
(*                                                                         *)
(* Representation.  A JSON argument object is a record                     *)
(*   [kinds |-> function field -> JSON type of the supplied value,         *)
(*    elems |-> the elements of its array-typed field (items / payments)]  *)
(* A field that is not in DOMAIN kinds was not supplied.  Array elements   *)
(* are records of the numeric fields they carry; the element null is the   *)
(* record with the single field `null`.  A statement sent to the proxy is  *)
(* [verb, table, params]: verb and table stand for its SQL text, params    *)
(* keeps the numeric parameters that the handler derives from identifiers  *)
(* and line items, Null is JSON null (what JSON.stringify makes of         *)
(* undefined and NaN inside an array).                                     *)
(***************************************************************************)
EXTENDS Integers, Sequences, FiniteSets, TLC

\* ---------------------------------------------------------------- bounds
MaxItems == 2      \* longest items / payments array
MaxPosts == 2      \* POST /messages requests in one behaviour of Spec
NumClients == 2    \* clients that may open GET /sse
MaxSupplied == 2   \* optional fields supplied in one update call
MaxCalls == 4      \* tools/call requests of one sequential client

Clients == 1..NumClients
Null == -1

\* ------------------------------------------------ advertised tool list

create_homework_inputSchema ==
  [properties |-> [class_id |-> "number", section_id |-> "number",
                   subject_id |-> "number", homework_date |-> "string",
                   submission_date |-> "string", description |-> "string",
                   sms_notification |-> "number", created_by |-> "number"],
   required |-> {"class_id", "section_id", "subject_id", "homework_date",
                 "submission_date", "description"}]

create_product_category_inputSchema ==
  [properties |-> [name |-> "string", branch_id |-> "number"],
   required |-> {"name", "branch_id"}]

create_purchase_inputSchema ==
  [properties |-> [bill_no |-> "string", supplier_id |-> "number",
                   store_id |-> "number", date |-> "string",
                   remarks |-> "string", items |-> "array",
                   prepared_by |-> "number", branch_id |-> "number"],
   required |-> {"bill_no", "supplier_id", "store_id", "date", "items"}]

create_product_issue_inputSchema ==
  [properties |-> [role_id |-> "number", user_id |-> "number",
                   date_of_issue |-> "string", due_date |-> "string",
                   remarks |-> "string", items |-> "array",
                   prepared_by |-> "number", branch_id |-> "number"],
   required |-> {"role_id", "user_id", "date_of_issue", "items"}]

create_postal_record_inputSchema ==
  [properties |-> [sender_title |-> "string", receiver_title |-> "string",
                   reference_no |-> "string", address |-> "string",
                   date |-> "string", type |-> "string",
                   confidential |-> "boolean", note |-> "string"],
   required |-> {"sender_title", "receiver_title", "type"}]

bulk_collect_fees_inputSchema ==
  [properties |-> [payments |-> "array", branch_id |-> "number"],
   required |-> {"payments"}]

create_student_inputSchema ==
  [properties |-> [first_name |-> "string", last_name |-> "string",
                   register_no |-> "string", admission_date |-> "string",
                   gender |-> "string", birthday |-> "string",
                   mobileno |-> "string", email |-> "string",
                   parent_id |-> "number", branch_id |-> "number",
                   class_id |-> "number", section_id |-> "number",
                   category_id |-> "number", religion |-> "string",
                   caste |-> "string", blood_group |-> "string",
                   current_address |-> "string",
                   permanent_address |-> "string"],
   required |-> {"first_name", "last_name", "register_no", "class_id",
                 "section_id"}]

\* The tools returned by the ListTools handler (the ones modelled here).
tools ==
  [create_homework |-> create_homework_inputSchema,
   create_product_category |-> create_product_category_inputSchema,
   create_purchase |-> create_purchase_inputSchema,
   create_product_issue |-> create_product_issue_inputSchema,
   create_postal_record |-> create_postal_record_inputSchema,
   bulk_collect_fees |-> bulk_collect_fees_inputSchema,
   create_student |-> create_student_inputSchema]

\* The declared shape of one element of an array-typed field: the item
\* fields named by the tool's description (items) or its items schema
\* (payments).
declaredElementFields(name) ==
  CASE name = "create_purchase" -> {"product_id", "quantity", "unit_price"}
    [] name = "create_product_issue" -> {"product_id", "quantity"}
    [] name = "bulk_collect_fees" ->
         {"allocation_id", "type_id", "amount", "date"}
    [] OTHER -> {}

\* ------------------------------------------------------ zod validation

Req(t) == [type |-> t, optional |-> FALSE]
Opt(t) == [type |-> t, optional |-> TRUE]

\* z.object(shape).parse(args): the paths of the issues zod reports.  A
\* missing non-optional key and a key of the wrong type are issues; unknown
\* keys are stripped.  elemFields is the shape z.array(z.object(..)) demands
\* of every element ({} for z.array(z.any())); an element lacking one of
\* them is an issue on the array's path.
zodIssues(shape, arrayField, elemFields, args) ==
  {f \in DOMAIN shape :
     \/ f \notin DOMAIN args.kinds /\ ~shape[f].optional
     \/ f \in DOMAIN args.kinds /\ args.kinds[f] # shape[f].type}
  \cup
  {f \in {arrayField} :
     /\ f \in DOMAIN args.kinds
     /\ args.kinds[f] = "array"
     /\ \E i \in 1..Len(args.elems) :
          \E g \in elemFields : g \notin DOMAIN args.elems[i]}

create_product_category_shape ==
  [name |-> Req("string"), branch_id |-> Opt("number")]

create_purchase_shape ==
  [bill_no |-> Req("string"), supplier_id |-> Req("number"),
   store_id |-> Req("number"), date |-> Req("string"),
   remarks |-> Opt("string"), items |-> Req("array"),
   prepared_by |-> Opt("number"), branch_id |-> Opt("number")]

create_product_issue_shape ==
  [role_id |-> Req("number"), user_id |-> Req("number"),
   date_of_issue |-> Req("string"), due_date |-> Opt("string"),
   remarks |-> Opt("string"), items |-> Req("array"),
   prepared_by |-> Opt("number"), branch_id |-> Opt("number")]

create_postal_record_shape ==
  [sender_title |-> Req("string"), receiver_title |-> Req("string"),
   reference_no |-> Opt("string"), address |-> Opt("string"),
   date |-> Req("string"), type |-> Req("string"),
   confidential |-> Opt("boolean"), note |-> Opt("string")]

bulk_collect_fees_shape ==
  [payments |-> Req("array"), branch_id |-> Opt("number")]

bulk_collect_fees_payment ==
  {"allocation_id", "type_id", "amount", "date"}

create_student_shape ==
  [first_name |-> Req("string"), last_name |-> Req("string"),
   register_no |-> Req("string"), admission_date |-> Req("string"),
   gender |-> Opt("string"), birthday |-> Opt("string"),
   mobileno |-> Opt("string"), email |-> Opt("string"),
   parent_id |-> Opt("number"), branch_id |-> Opt("number"),
   class_id |-> Req("number"), section_id |-> Req("number"),
   category_id |-> Opt("number"), religion |-> Opt("string"),
   caste |-> Opt("string"), blood_group |-> Opt("string"),
   current_address |-> Opt("string"), permanent_address |-> Opt("string")]

\* ---------------------------------------------------- handler results

NoStmt == [verb |-> "", table |-> "", cols |-> <<>>, params |-> <<>>]

\* What a handler does next: await pool.execute(..), return a response, or
\* throw.  Every handler below is the async function of one `case`, given
\* the results of the pool.execute calls it has already awaited.
Execute(verb, table, params) ==
  [op |-> "execute", stmt |-> [verb |-> verb, table |-> table,
                               cols |-> <<>>, params |-> params],
   error |-> "", text |-> "", id |-> Null, paths |-> {}, arg |-> "",
   rows |-> <<>>]

\* await pool.execute(..) of a statement whose column list matters: cols
\* are the columns it names (SET col = ?, or the INSERT column list), in
\* the order of their parameters; the parameters after the last column
\* belong to the WHERE clause.
ExecuteCols(verb, table, cols, params) ==
  [op |-> "execute", stmt |-> [verb |-> verb, table |-> table,
                               cols |-> cols, params |-> params],
   error |-> "", text |-> "", id |-> Null, paths |-> {}, arg |-> "",
   rows |-> <<>>]

Return(text, id) ==
  [op |-> "return", stmt |-> NoStmt, error |-> "", text |-> text, id |-> id,
   paths |-> {}, arg |-> "", rows |-> <<>>]

\* return { content: [{ type: "text", text: JSON.stringify(rows, null, 2) }] }
\* The records of the text are kept in rows.
ReturnRows(rows) ==
  [op |-> "return", stmt |-> NoStmt, error |-> "",
   text |-> "JSON.stringify(rows)", id |-> Null, paths |-> {}, arg |-> "",
   rows |-> rows]

\* ZodError: its message is the JSON list of issues, each with its path.
ThrowZod(issues) ==
  [op |-> "throw", stmt |-> NoStmt, error |-> "ZodError",
   text |-> "ZodError: ", id |-> Null, paths |-> issues, arg |-> "",
   rows |-> <<>>]

ThrowMcp(name) ==
  [op |-> "throw", stmt |-> NoStmt, error |-> "McpError",
   text |-> "MCP error -32601: Unknown tool: ", id |-> Null, paths |-> {},
   arg |-> name, rows |-> <<>>]

\* Reading a property of null: TypeError.
ThrowType(property) ==
  [op |-> "throw", stmt |-> NoStmt, error |-> "TypeError",
   text |-> "Cannot read properties of null (reading '" \o property \o "')",
   id |-> Null, paths |-> {}, arg |-> "", rows |-> <<>>]

IsNull(item) == "null" \in DOMAIN item

\* item.f of a line item; undefined (Null) when the element lacks f.
Field(item, f) == IF f \in DOMAIN item THEN item[f] ELSE Null

\* (item.quantity * item.unit_price) - (item.discount || 0); NaN (Null)
\* when quantity or unit_price is undefined.  Items carry no discount.
subtotal(item) ==
  IF Field(item, "quantity") = Null \/ Field(item, "unit_price") = Null
    THEN Null
    ELSE Field(item, "quantity") * Field(item, "unit_price")

RECURSIVE total(_)
total(items) ==
  IF items = <<>> THEN 0
  ELSE LET rest == total(Tail(items))
           st == subtotal(Head(items))
       IN IF rest = Null \/ st = Null THEN Null ELSE st + rest

create_product_category(args, results) ==
  LET issues == zodIssues(create_product_category_shape, "", {}, args)
  IN IF issues # {} THEN ThrowZod(issues)
     ELSE IF Len(results) = 0
       THEN Execute("INSERT", "product_category", <<>>)
       ELSE Return("Product category created. ID: ", results[1].insertId)

create_postal_record(args, results) ==
  LET issues == zodIssues(create_postal_record_shape, "", {}, args)
  IN IF issues # {} THEN ThrowZod(issues)
     ELSE IF Len(results) = 0
       THEN Execute("INSERT", "postal_record", <<>>)
       ELSE Return("Postal record created. ID: ", results[1].insertId)

\* create_purchase walking the items from the last to the first.
create_purchase_reversed(args, results) ==
  LET issues == zodIssues(create_purchase_shape, "items", {}, args)
      items == args.elems
      n == Len(results)
  IN IF issues # {} THEN ThrowZod(issues)
     ELSE IF n = 0
       THEN IF \E x \in 1..Len(items) : IsNull(items[x])
              THEN ThrowType("quantity")
              ELSE Execute("INSERT", "purchase_bill",
                           <<total(items), total(items)>>)
       ELSE LET billId == results[1].insertId
                k == n - 1
                i == (k \div 2) + 1
                j == Len(items) + 1 - i
            IN IF i > Len(items)
                 THEN Return("Purchase order created. Bill ID: ", billId)
                 ELSE IF k % 2 = 0
                   THEN Execute("INSERT", "purchase_bill_details",
                                <<billId, Field(items[j], "product_id"),
                                  Field(items[j], "unit_price"),
                                  Field(items[j], "quantity"), 0,
                                  subtotal(items[j])>>)
                   ELSE Execute("ADD_STOCK", "product",
                                <<Field(items[j], "quantity"),
                                  Field(items[j], "product_id")>>)

create_purchase(args, results) ==
  LET issues == zodIssues(create_purchase_shape, "items", {}, args)
      items == args.elems
      n == Len(results)
  IN IF issues # {} THEN ThrowZod(issues)
     ELSE IF n = 0
       THEN IF \E x \in 1..Len(items) : IsNull(items[x])
              THEN ThrowType("quantity")
              ELSE Execute("INSERT", "purchase_bill",
                           <<total(items), total(items)>>)
       ELSE LET billId == results[1].insertId
                k == n - 1
                i == (k \div 2) + 1
            IN IF i > Len(items)
                 THEN Return("Purchase order created. Bill ID: ", billId)
                 ELSE IF k % 2 = 0
                   THEN Execute("INSERT", "purchase_bill_details",
                                <<billId, Field(items[i], "product_id"),
                                  Field(items[i], "unit_price"),
                                  Field(items[i], "quantity"), 0,
                                  subtotal(items[i])>>)
                   ELSE Execute("ADD_STOCK", "product",
                                <<Field(items[i], "quantity"),
                                  Field(items[i], "product_id")>>)

update_product_stock_shape ==
  [product_id |-> Req("number"), available_stock |-> Req("string")]

\* UPDATE product SET available_stock = ? WHERE id = ?
update_product_stock(args, results) ==
  LET issues == zodIssues(update_product_stock_shape, "", {}, args)
  IN IF issues # {} THEN ThrowZod(issues)
     ELSE IF Len(results) = 0
       THEN Execute("SET_STOCK", "product",
                    <<args.vals["available_stock"], args.vals["product_id"]>>)
       ELSE Return("Product stock updated successfully.", Null)

\* create_product_issue reading available_stock and writing back the
\* difference (SELECT, then UPDATE .. SET available_stock = ?) in place of
\* the relative UPDATE.
create_product_issue_readThenWrite(args, results) ==
  LET issues == zodIssues(create_product_issue_shape, "items", {}, args)
      items == args.elems
      n == Len(results)
  IN IF issues # {} THEN ThrowZod(issues)
     ELSE IF n = 0
       THEN Execute("INSERT", "product_issues", <<>>)
       ELSE LET issueId == results[1].insertId
                k == n - 1
                i == (k \div 3) + 1
            IN IF i > Len(items)
                 THEN Return("Product issue created. Issue ID: ", issueId)
                 ELSE IF IsNull(items[i]) THEN ThrowType("product_id")
                 ELSE IF k % 3 = 0
                   THEN Execute("INSERT", "product_issues_details",
                                <<issueId, Field(items[i], "product_id"),
                                  Field(items[i], "quantity")>>)
                 ELSE IF k % 3 = 1
                   THEN Execute("SELECT_STOCK", "product",
                                <<Null, Field(items[i], "product_id")>>)
                   ELSE Execute("SET_STOCK", "product",
                                <<results[n].rows[1].available_stock
                                    - Field(items[i], "quantity"),
                                  Field(items[i], "product_id")>>)

create_product_issue(args, results) ==
  LET issues == zodIssues(create_product_issue_shape, "items", {}, args)
      items == args.elems
      n == Len(results)
  IN IF issues # {} THEN ThrowZod(issues)
     ELSE IF n = 0
       THEN Execute("INSERT", "product_issues", <<>>)
       ELSE LET issueId == results[1].insertId
                k == n - 1
                i == (k \div 2) + 1
            IN IF i > Len(items)
                 THEN Return("Product issue created. Issue ID: ", issueId)
                 ELSE IF IsNull(items[i]) THEN ThrowType("product_id")
                 ELSE IF k % 2 = 0
                   THEN Execute("INSERT", "product_issues_details",
                                <<issueId, Field(items[i], "product_id"),
                                  Field(items[i], "quantity")>>)
                   ELSE Execute("SUB_STOCK", "product",
                                <<Field(items[i], "quantity"),
                                  Field(items[i], "product_id")>>)

bulk_collect_fees(args, results) ==
  LET issues == zodIssues(bulk_collect_fees_shape, "payments",
                          bulk_collect_fees_payment, args)
      payments == args.elems
      n == Len(results)
  IN IF issues # {} THEN ThrowZod(issues)
     ELSE IF n < Len(payments)
       THEN Execute("INSERT", "fee_payment_history",
                    <<payments[n + 1].allocation_id, payments[n + 1].type_id,
                      payments[n + 1].amount, payments[n + 1].date>>)
       ELSE Return("Bulk payments recorded. Total: ", n)

create_student(args, results) ==
  LET issues == zodIssues(create_student_shape, "", {}, args)
      n == Len(results)
  IN IF issues # {} THEN ThrowZod(issues)
     ELSE IF n = 0 THEN Execute("INSERT", "student", <<>>)
     ELSE IF n = 1 THEN Execute("INSERT", "enroll", <<results[1].insertId>>)
     ELSE IF n = 2
       THEN Execute("INSERT", "login_credential", <<results[1].insertId>>)
       ELSE Return("Student created. ID: ", results[1].insertId)

\* ------------------------------------------------------ update handlers
\* The argument object of the handlers below also carries
\*   vals |-> function field -> the supplied value, written as a number;
\* 0 is the falsy value of the field's type (the empty string, the number
\* 0), every other value is truthy.

\* throw new McpError(ErrorCode.InvalidRequest, `<entity> with ID ${id} not
\* found`)
ThrowNotFound(entity) ==
  [op |-> "throw", stmt |-> NoStmt, error |-> "McpError",
   text |-> "MCP error -32600: " \o entity \o " not found", id |-> Null,
   paths |-> {}, arg |-> "", rows |-> <<>>]

\* parsed.f: undefined (Null) when f was not supplied.
Parsed(args, f) == IF f \in DOMAIN args.kinds THEN args.vals[f] ELSE Null

\* if (parsed.f)
Truthy(args, f) == f \in DOMAIN args.kinds /\ args.vals[f] # 0

\* The fields a handler pushes onto its updates array, in source order:
\* f is pushed when `if (parsed.f)` passes, or, for the fields in
\* `defined`, when `if (parsed.f !== undefined)` passes.
pushed(args, fields, defined) ==
  SelectSeq(fields, LAMBDA f : IF f \in defined THEN f \in DOMAIN args.kinds
                                                ELSE Truthy(args, f))

\* The values array that goes with the pushed fields.
valuesOf(args, fs) == [i \in 1..Len(fs) |-> args.vals[fs[i]]]

\* The column each pushed field is written to ("class = ?" for class_id).
columnsOf(fs, rename) ==
  [i \in 1..Len(fs) |-> IF fs[i] \in DOMAIN rename THEN rename[fs[i]]
                                                   ELSE fs[i]]

update_inquiry_shape ==
  [id |-> Req("number"), name |-> Opt("string"), mobile_no |-> Opt("string"),
   father_name |-> Opt("string"), mother_name |-> Opt("string"),
   email |-> Opt("string"), address |-> Opt("string"),
   response |-> Opt("string"), note |-> Opt("string"),
   status |-> Opt("string")]

\* status is parsed but never pushed; updated_at = NOW() is always pushed,
\* hence `updates.length <= 1`.
update_inquiry(args, results) ==
  LET issues == zodIssues(update_inquiry_shape, "", {}, args)
      fs == pushed(args, <<"name", "mobile_no", "father_name", "mother_name",
                           "email", "address", "response", "note">>, {})
      updates == fs \o <<"updated_at">>
  IN IF issues # {} THEN ThrowZod(issues)
     ELSE IF Len(updates) <= 1
       THEN Return("No fields to update provided.", Null)
     ELSE IF Len(results) = 0
       THEN ExecuteCols("UPDATE", "enquiry", updates,
                        valuesOf(args, fs) \o <<args.vals["id"]>>)
     ELSE IF results[1].affectedRows = 0
       THEN ThrowNotFound("Inquiry with ID")
       ELSE Return("Inquiry updated successfully.", args.vals["id"])

update_visitor_log_shape ==
  [id |-> Req("number"), name |-> Opt("string"), number |-> Opt("string"),
   purpose_id |-> Opt("number"), date |-> Opt("string"),
   entry_time |-> Opt("string"), exit_time |-> Opt("string"),
   number_of_visitor |-> Opt("number"), id_number |-> Opt("string"),
   token_pass |-> Opt("string"), note |-> Opt("string")]

update_visitor_log(args, results) ==
  LET issues == zodIssues(update_visitor_log_shape, "", {}, args)
      updates == pushed(args, <<"name", "number", "purpose_id", "date",
                                "entry_time", "exit_time",
                                "number_of_visitor", "id_number",
                                "token_pass", "note">>, {})
  IN IF issues # {} THEN ThrowZod(issues)
     ELSE IF Len(updates) > 0
       THEN IF Len(results) = 0
              THEN ExecuteCols("UPDATE", "visitor_log", updates,
                               valuesOf(args, updates) \o <<args.vals["id"]>>)
              ELSE Return("Visitor log updated.", args.vals["id"])
       ELSE Return("No updates provided.", Null)

create_grade_shape ==
  [grade_id |-> Opt("number"), name |-> Req("string"),
   grade_point |-> Req("number"), lower_mark |-> Req("number"),
   upper_mark |-> Req("number"), remark |-> Opt("string"),
   branch_id |-> Opt("number")]

\* parsed.f || dflt
OrElse(args, f, dflt) == IF Truthy(args, f) THEN args.vals[f] ELSE dflt

create_grade(args, results) ==
  LET issues == zodIssues(create_grade_shape, "", {}, args)
      four == <<"name", "grade_point", "lower_mark", "upper_mark">>
  IN IF issues # {} THEN ThrowZod(issues)
     ELSE IF Truthy(args, "grade_id")
       THEN IF Len(results) = 0
              THEN ExecuteCols("UPDATE", "grade", four \o <<"remark">>,
                               valuesOf(args, four)
                                 \o <<OrElse(args, "remark", Null),
                                      args.vals["grade_id"]>>)
              ELSE Return("Grade updated.", args.vals["grade_id"])
       ELSE IF Len(results) = 0
              THEN ExecuteCols("INSERT", "grade",
                               four \o <<"remark", "branch_id">>,
                               valuesOf(args, four)
                                 \o <<OrElse(args, "remark", Null),
                                      OrElse(args, "branch_id", 1)>>)
              ELSE Return("Grade created. ID: ", results[1].insertId)

update_student_shape ==
  [id |-> Req("number"), first_name |-> Opt("string"),
   last_name |-> Opt("string"), register_no |-> Opt("string"),
   admission_date |-> Opt("string"), gender |-> Opt("string"),
   birthday |-> Opt("string"), mobileno |-> Opt("string"),
   email |-> Opt("string"), parent_id |-> Opt("number"),
   class_id |-> Opt("number"), section_id |-> Opt("number"),
   category_id |-> Opt("number"), religion |-> Opt("string"),
   caste |-> Opt("string"), blood_group |-> Opt("string"),
   current_address |-> Opt("string"), permanent_address |-> Opt("string")]

\* The statements of a handler that awaits each of `plan` in turn and then
\* returns `done`.
inTurn(plan, results, done) ==
  IF Len(results) < Len(plan) THEN plan[Len(results) + 1] ELSE done

update_student(args, results) ==
  LET issues == zodIssues(update_student_shape, "", {}, args)
      updates == pushed(args, <<"first_name", "last_name", "register_no",
                                "admission_date", "gender", "birthday",
                                "mobileno", "email", "parent_id", "class_id",
                                "section_id", "category_id", "religion",
                                "caste", "blood_group", "current_address",
                                "permanent_address">>, {"category_id"})
      enrollUpdates == pushed(args, <<"class_id", "section_id">>, {})
      id == args.vals["id"]
  IN IF issues # {} THEN ThrowZod(issues)
     ELSE inTurn(
       (IF Len(updates) > 0
          THEN <<ExecuteCols("UPDATE", "student",
                   columnsOf(updates, [class_id |-> "class",
                                       section_id |-> "section"]),
                   valuesOf(args, updates) \o <<id>>)>>
          ELSE <<>>)
       \o
       (IF Len(enrollUpdates) > 0
          THEN <<ExecuteCols("UPDATE", "enroll", enrollUpdates,
                   valuesOf(args, enrollUpdates) \o <<id>>)>>
          ELSE <<>>),
       results, Return("Student updated.", id))

update_staff_shape ==
  [id |-> Req("number"), name |-> Opt("string"), sex |-> Opt("string"),
   designation_id |-> Opt("number"), department_id |-> Opt("number"),
   joining_date |-> Opt("string"), mobileno |-> Opt("string"),
   email |-> Opt("string"), address |-> Opt("string"),
   qualification |-> Opt("string"), experience |-> Opt("string"),
   role_id |-> Opt("number"), active |-> Opt("number")]

update_staff(args, results) ==
  LET issues == zodIssues(update_staff_shape, "", {}, args)
      updates == pushed(args, <<"name", "sex", "designation_id",
                                "department_id", "joining_date", "mobileno",
                                "email", "address", "qualification",
                                "experience">>,
                        {"designation_id", "department_id"})
      lcUpdates == pushed(args, <<"role_id", "active">>,
                          {"role_id", "active"})
      id == args.vals["id"]
  IN IF issues # {} THEN ThrowZod(issues)
     ELSE inTurn(
       (IF Len(updates) > 0
          THEN <<ExecuteCols("UPDATE", "staff",
                   columnsOf(updates, [designation_id |-> "designation",
                                       department_id |-> "department",
                                       experience |-> "work_exp"]),
                   valuesOf(args, updates) \o <<id>>)>>
          ELSE <<>>)
       \o
       (IF Len(lcUpdates) > 0
          THEN <<ExecuteCols("UPDATE", "login_credential",
                   columnsOf(lcUpdates, [role_id |-> "role"]),
                   valuesOf(args, lcUpdates) \o <<id>>)>>
          ELSE <<>>),
       results, Return("Staff updated.", id))

\* -------------------------------------------------------- list handlers

\* parsed.f of a field declared z.number().default(dflt)
Default(args, f, dflt) ==
  IF f \in DOMAIN args.kinds THEN args.vals[f] ELSE dflt

list_inquiries_shape ==
  [branch_id |-> Opt("number"), limit |-> Opt("number"),
   offset |-> Opt("number"), search |-> Opt("string"),
   status |-> Opt("string"), source_id |-> Opt("number"),
   class_id |-> Opt("number"), start_date |-> Opt("string"),
   end_date |-> Opt("string"), created_by |-> Opt("number")]

\* " ... LIMIT ? OFFSET ?", params.push(parsed.limit, parsed.offset)
list_inquiries(args, results) ==
  LET issues == zodIssues(list_inquiries_shape, "", {}, args)
  IN IF issues # {} THEN ThrowZod(issues)
     ELSE IF Len(results) = 0
       THEN Execute("LIST", "enquiry", <<Default(args, "limit", 50),
                                         Default(args, "offset", 0)>>)
       ELSE ReturnRows(results[1].rows)

list_transactions_shape ==
  [type |-> Opt("string"), start_date |-> Opt("string"),
   end_date |-> Opt("string"), limit |-> Opt("number")]

\* if (parsed.limit) " LIMIT ?" else " LIMIT 50"; no OFFSET clause
list_transactions(args, results) ==
  LET issues == zodIssues(list_transactions_shape, "", {}, args)
  IN IF issues # {} THEN ThrowZod(issues)
     ELSE IF Len(results) = 0
       THEN Execute("LIST", "transactions",
                    <<OrElse(args, "limit", 50), Null>>)
       ELSE ReturnRows(results[1].rows)

list_students_shape ==
  [branch_id |-> Opt("number"), class_id |-> Opt("number"),
   section_id |-> Opt("number")]

\* The statement has neither LIMIT nor OFFSET.  (One enroll row of
\* session 4 per student.)
list_students(args, results) ==
  LET issues == zodIssues(list_students_shape, "", {}, args)
  IN IF issues # {} THEN ThrowZod(issues)
     ELSE IF Len(results) = 0
       THEN Execute("LIST", "student", <<Null, Null>>)
       ELSE ReturnRows(results[1].rows)

\* ----------------------------------------------------- inquiry handlers

create_inquiry_shape ==
  [name |-> Req("string"), mobile_no |-> Req("string"),
   date |-> Req("string"), father_name |-> Opt("string"),
   mother_name |-> Opt("string"), email |-> Opt("string"),
   address |-> Opt("string"), note |-> Opt("string"),
   response |-> Opt("string"), class_id |-> Opt("number"),
   source |-> Opt("string"), status |-> Opt("string")]

\* The status 'active' is written 1, like branch_id 1 and created_by 1.
create_inquiry(args, results) ==
  LET issues == zodIssues(create_inquiry_shape, "", {}, args)
  IN IF issues # {} THEN ThrowZod(issues)
     ELSE IF Len(results) = 0
       THEN ExecuteCols("INSERT", "enquiry",
              <<"name", "mobile_no", "date", "father_name", "mother_name",
                "email", "address", "note", "response", "class_id",
                "reference_id", "status", "branch_id", "created_by">>,
              <<args.vals["name"], args.vals["mobile_no"], args.vals["date"],
                OrElse(args, "father_name", Null),
                OrElse(args, "mother_name", Null),
                OrElse(args, "email", Null), OrElse(args, "address", Null),
                OrElse(args, "note", Null), OrElse(args, "response", Null),
                OrElse(args, "class_id", Null), OrElse(args, "source", Null),
                OrElse(args, "status", 1), 1, 1>>)
       ELSE Return("Inquiry created successfully. ID: ", results[1].insertId)

by_id_shape == [id |-> Req("number")]

read_inquiry(args, results) ==
  LET issues == zodIssues(by_id_shape, "", {}, args)
  IN IF issues # {} THEN ThrowZod(issues)
     ELSE IF Len(results) = 0
       THEN Execute("SELECT", "enquiry", <<args.vals["id"]>>)
     ELSE IF Len(results[1].rows) = 0
       THEN ThrowNotFound("Inquiry with ID")
       ELSE ReturnRows(<<results[1].rows[1]>>)

\* delete_inquiry answering success whatever affectedRows is.
delete_inquiry_unchecked(args, results) ==
  LET issues == zodIssues(by_id_shape, "", {}, args)
  IN IF issues # {} THEN ThrowZod(issues)
     ELSE IF Len(results) = 0
       THEN Execute("DELETE", "enquiry_follow_up", <<args.vals["id"]>>)
     ELSE IF Len(results) = 1
       THEN Execute("DELETE", "enquiry", <<args.vals["id"]>>)
       ELSE Return("Inquiry deleted successfully.", args.vals["id"])

delete_inquiry(args, results) ==
  LET issues == zodIssues(by_id_shape, "", {}, args)
  IN IF issues # {} THEN ThrowZod(issues)
     ELSE IF Len(results) = 0
       THEN Execute("DELETE", "enquiry_follow_up", <<args.vals["id"]>>)
     ELSE IF Len(results) = 1
       THEN Execute("DELETE", "enquiry", <<args.vals["id"]>>)
     ELSE IF results[2].affectedRows = 0
       THEN ThrowNotFound("Inquiry with ID")
       ELSE Return("Inquiry deleted successfully.", args.vals["id"])

\* ------------------------------------- other reads and deletes by id

read_call_log(args, results) ==
  LET issues == zodIssues(by_id_shape, "", {}, args)
  IN IF issues # {} THEN ThrowZod(issues)
     ELSE IF Len(results) = 0
       THEN Execute("SELECT", "call_log", <<args.vals["id"]>>)
     ELSE IF Len(results[1].rows) = 0
       THEN ThrowNotFound("Call log with ID")
       ELSE ReturnRows(<<results[1].rows[1]>>)

delete_call_log(args, results) ==
  LET issues == zodIssues(by_id_shape, "", {}, args)
  IN IF issues # {} THEN ThrowZod(issues)
     ELSE IF Len(results) = 0
       THEN Execute("DELETE", "call_log", <<args.vals["id"]>>)
       ELSE Return("Call log deleted.", args.vals["id"])

\* JSON.stringify(rows[0] || {}): the empty object when no row has the id.
get_student(args, results) ==
  LET issues == zodIssues(by_id_shape, "", {}, args)
  IN IF issues # {} THEN ThrowZod(issues)
     ELSE IF Len(results) = 0
       THEN Execute("SELECT", "student", <<args.vals["id"]>>)
     ELSE IF Len(results[1].rows) = 0
       THEN ReturnRows(<<[c \in {} |-> 0]>>)
       ELSE ReturnRows(<<results[1].rows[1]>>)

\* ------------------------------------------------------ staff attendance

\* status is z.enum(["present", "absent", "late", "half_day"]), written
\* 1..4 and carried with kind "string".
mark_staff_attendance_shape ==
  [staff_id |-> Req("number"), date |-> Req("string"),
   status |-> Req("string"), remarks |-> Opt("string")]

\* mark_staff_attendance with a plain INSERT.
mark_staff_attendance_insertOnly(args, results) ==
  LET issues == zodIssues(mark_staff_attendance_shape, "", {}, args)
  IN IF issues # {} THEN ThrowZod(issues)
     ELSE IF Len(results) = 0
       THEN ExecuteCols("INSERT", "staff_attendance",
              <<"staff_id", "date", "status", "remark">>,
              <<args.vals["staff_id"], args.vals["date"],
                args.vals["status"], OrElse(args, "remarks", 0)>>)
       ELSE Return("Staff attendance marked for ", args.vals["date"])

\* INSERT INTO staff_attendance (staff_id, date, status, remark) VALUES
\* (?, ?, ?, ?) ON DUPLICATE KEY UPDATE status = ?, remark = ?; the remark
\* is parsed.remarks || '' (0 is the empty string).
mark_staff_attendance(args, results) ==
  LET issues == zodIssues(mark_staff_attendance_shape, "", {}, args)
  IN IF issues # {} THEN ThrowZod(issues)
     ELSE IF Len(results) = 0
       THEN ExecuteCols("UPSERT", "staff_attendance",
              <<"staff_id", "date", "status", "remark">>,
              <<args.vals["staff_id"], args.vals["date"],
                args.vals["status"], OrElse(args, "remarks", 0),
                args.vals["status"], OrElse(args, "remarks", 0)>>)
       ELSE Return("Staff attendance marked for ", args.vals["date"])

\* ------------------------------------------------------ leave workflow

\* staff_leave.status / student_leave.status ENUM('pending', 'approved',
\* 'rejected'), written 1, 2, 3 and carried with kind "string".
Pending == 1
Approved == 2
Rejected == 3

create_staff_leave_shape ==
  [staff_id |-> Req("number"), leave_category_id |-> Req("number"),
   start_date |-> Req("string"), end_date |-> Req("string"),
   reason |-> Req("string"), branch_id |-> Opt("number")]

create_staff_leave(args, results) ==
  LET issues == zodIssues(create_staff_leave_shape, "", {}, args)
  IN IF issues # {} THEN ThrowZod(issues)
     ELSE IF Len(results) = 0
       THEN ExecuteCols("INSERT", "staff_leave",
              <<"staff_id", "leave_category_id", "leave_from", "leave_to",
                "reason", "branch_id">>,
              <<args.vals["staff_id"], args.vals["leave_category_id"],
                args.vals["start_date"], args.vals["end_date"],
                args.vals["reason"], OrElse(args, "branch_id", 1)>>)
       ELSE Return("Staff leave application created. ID: ",
                   results[1].insertId)

create_student_leave_shape ==
  [student_id |-> Req("number"), start_date |-> Req("string"),
   end_date |-> Req("string"), reason |-> Req("string"),
   branch_id |-> Opt("number")]

create_student_leave(args, results) ==
  LET issues == zodIssues(create_student_leave_shape, "", {}, args)
  IN IF issues # {} THEN ThrowZod(issues)
     ELSE IF Len(results) = 0
       THEN ExecuteCols("INSERT", "student_leave",
              <<"student_id", "leave_from", "leave_to", "reason",
                "branch_id">>,
              <<args.vals["student_id"], args.vals["start_date"],
                args.vals["end_date"], args.vals["reason"],
                OrElse(args, "branch_id", 1)>>)
       ELSE Return("Student leave application created. ID: ",
                   results[1].insertId)

\* status is z.enum(["approved", "rejected"]).
approve_leave_shape ==
  [leave_id |-> Req("number"), status |-> Req("string"),
   remarks |-> Opt("string")]

\* UPDATE <table> SET status = ?, approved_by = ?, approved_date = NOW(),
\* remarks = ? WHERE id = ?, then `<text>${parsed.status}`; the result of
\* the UPDATE is not read.
approve_leave(table, text, args, results) ==
  LET issues == zodIssues(approve_leave_shape, "", {}, args)
  IN IF issues # {} THEN ThrowZod(issues)
     ELSE IF args.vals["status"] \notin {Approved, Rejected}
       THEN ThrowZod({"status"})
     ELSE IF Len(results) = 0
       THEN ExecuteCols("UPDATE", table,
              <<"status", "approved_by", "remarks">>,
              <<args.vals["status"], 1, OrElse(args, "remarks", 0),
                args.vals["leave_id"]>>)
       ELSE Return(text, args.vals["status"])

approve_staff_leave(args, results) ==
  approve_leave("staff_leave", "Leave application ", args, results)

approve_student_leave(args, results) ==
  approve_leave("student_leave", "Student leave application ", args, results)

\* ------------------------------------------------------------- fees

allocate_fees_shape ==
  [student_id |-> Req("number"), group_id |-> Req("number"),
   branch_id |-> Opt("number"), prev_due |-> Opt("number")]

\* INSERT INTO fee_allocation (student_id, group_id, branch_id, session_id,
\* prev_due) VALUES (?, ?, ?, 1, ?): the session is the literal 1.
allocate_fees(args, results) ==
  LET issues == zodIssues(allocate_fees_shape, "", {}, args)
  IN IF issues # {} THEN ThrowZod(issues)
     ELSE IF Len(results) = 0
       THEN ExecuteCols("INSERT", "fee_allocation",
              <<"student_id", "group_id", "branch_id", "session_id",
                "prev_due">>,
              <<args.vals["student_id"], args.vals["group_id"],
                OrElse(args, "branch_id", 1), 1,
                OrElse(args, "prev_due", 0)>>)
       ELSE Return("Fees allocated. Allocation ID: ", results[1].insertId)

collect_fees_shape ==
  [allocation_id |-> Req("number"), type_id |-> Req("number"),
   amount |-> Req("number"), discount |-> Opt("number"),
   fine |-> Opt("number"), date |-> Req("string"),
   method |-> Opt("string"), pay_via |-> Opt("number"),
   remarks |-> Opt("string")]

collect_fees(args, results) ==
  LET issues == zodIssues(collect_fees_shape, "", {}, args)
  IN IF issues # {} THEN ThrowZod(issues)
     ELSE IF Len(results) = 0
       THEN ExecuteCols("INSERT", "fee_payment_history",
              <<"allocation_id", "type_id", "remarks", "amount", "discount",
                "fine", "date", "pay_via">>,
              <<args.vals["allocation_id"], args.vals["type_id"],
                OrElse(args, "remarks", Null), args.vals["amount"],
                OrElse(args, "discount", 0), OrElse(args, "fine", 0),
                args.vals["date"], OrElse(args, "pay_via", 1)>>)
       ELSE Return("Payment recorded. Payment ID: ", results[1].insertId)

student_id_shape == [student_id |-> Req("number")]

\* x || 0 for a column that may be NULL.
OrZero(x) == IF x = Null THEN 0 ELSE x

\* const balance = (status.total_allocated || 0) -
\* (status.total_paid_with_discount || 0), returned with the row.
get_student_fee_status(args, results) ==
  LET issues == zodIssues(student_id_shape, "", {}, args)
  IN IF issues # {} THEN ThrowZod(issues)
     ELSE IF Len(results) = 0
       THEN Execute("FEE_STATUS", "fee_allocation", <<args.vals["student_id"]>>)
       ELSE LET status == results[1].rows[1]
            IN ReturnRows(<<[total_allocated |-> status.total_allocated,
                             total_paid_with_discount |->
                               status.total_paid_with_discount,
                             total_paid_only |-> status.total_paid_only,
                             balance |->
                               OrZero(status.total_allocated)
                                 - OrZero(status.total_paid_with_discount)]>>)

\* status is z.enum(["Paid", "Unpaid"]), written 1 and 2 and carried with
\* kind "string".
Paid == 1
Unpaid == 2

set_fee_status_shape ==
  [student_id |-> Req("number"), status |-> Req("string"),
   date |-> Opt("string")]

\* new Date().toISOString().split('T')[0], written as its digits.
today == 20261101

\* The loop `for (const row of allocs)` of set_fee_status from row k on,
\* results[pos] being the first result it has not consumed, count the
\* payments recorded so far.
RECURSIVE clearBalance(_, _, _, _, _, _)
clearBalance(args, allocs, k, results, pos, count) ==
  IF k > Len(allocs)
    THEN Return("Status set to Paid. Recorded payment entries: ", count)
  ELSE IF pos > Len(results)
    THEN Execute("SELECT_PAID", "fee_payment_history",
                 <<allocs[k].allocation_id, allocs[k].fee_type_id>>)
  ELSE LET paid == OrZero(results[pos].rows[1].paid)
           remaining == allocs[k].total_due - paid
       IN IF remaining > 0
            THEN IF pos + 1 > Len(results)
                   THEN ExecuteCols("INSERT", "fee_payment_history",
                          <<"allocation_id", "type_id", "amount", "date">>,
                          <<allocs[k].allocation_id, allocs[k].fee_type_id,
                            remaining, OrElse(args, "date", today)>>)
                   ELSE clearBalance(args, allocs, k + 1, results, pos + 2,
                                     count + 1)
            ELSE clearBalance(args, allocs, k + 1, results, pos + 1, count)

set_fee_status(args, results) ==
  LET issues == zodIssues(set_fee_status_shape, "", {}, args)
  IN IF issues # {} THEN ThrowZod(issues)
     ELSE IF args.vals["status"] \notin {Paid, Unpaid}
       THEN ThrowZod({"status"})
     ELSE IF args.vals["status"] = Paid
       THEN IF Len(results) = 0
              THEN Execute("SELECT_ALLOCS", "fee_allocation",
                           <<args.vals["student_id"]>>)
              ELSE clearBalance(args, results[1].rows, 1, results, 2, 0)
     ELSE IF Len(results) = 0
       THEN Execute("DELETE_PAYMENTS", "fee_payment_history",
                    <<args.vals["student_id"]>>)
       ELSE Return("Status set to Unpaid. All payment records for current session have been removed.",
                   Null)

\* ------------------------------------- bulk delete and follow-ups

\* ids is z.array(z.number()); the numbers are kept in args.elems.
bulk_delete_inquiries_shape == [ids |-> Req("array")]

\* bulk_delete_inquiries reporting the number of ids it was given.
bulk_delete_inquiries_countIds(args, results) ==
  LET issues == zodIssues(bulk_delete_inquiries_shape, "", {}, args)
  IN IF issues # {} THEN ThrowZod(issues)
     ELSE IF Len(args.elems) = 0
       THEN Return("No IDs provided for deletion.", Null)
     ELSE IF Len(results) = 0
       THEN Execute("DELETE_IN", "enquiry_follow_up", args.elems)
     ELSE IF Len(results) = 1
       THEN Execute("DELETE_IN", "enquiry", args.elems)
       ELSE Return(" inquiries deleted successfully.", Len(args.elems))

\* DELETE FROM enquiry_follow_up WHERE enquiry_id IN (?, ..), then DELETE
\* FROM enquiry WHERE id IN (?, ..), then `${result.affectedRows} inquiries
\* deleted successfully.`
bulk_delete_inquiries(args, results) ==
  LET issues == zodIssues(bulk_delete_inquiries_shape, "", {}, args)
  IN IF issues # {} THEN ThrowZod(issues)
     ELSE IF Len(args.elems) = 0
       THEN Return("No IDs provided for deletion.", Null)
     ELSE IF Len(results) = 0
       THEN Execute("DELETE_IN", "enquiry_follow_up", args.elems)
     ELSE IF Len(results) = 1
       THEN Execute("DELETE_IN", "enquiry", args.elems)
       ELSE Return(" inquiries deleted successfully.",
                   results[2].affectedRows)

create_inquiry_follow_up_shape ==
  [enquiry_id |-> Req("number"), date |-> Req("string"),
   next_date |-> Opt("string"), response |-> Opt("string"),
   note |-> Opt("string"), status |-> Opt("string")]

create_inquiry_follow_up(args, results) ==
  LET issues == zodIssues(create_inquiry_follow_up_shape, "", {}, args)
  IN IF issues # {} THEN ThrowZod(issues)
     ELSE IF Len(results) = 0
       THEN ExecuteCols("INSERT", "enquiry_follow_up",
              <<"enquiry_id", "date", "next_date", "response", "note",
                "status">>,
              <<args.vals["enquiry_id"], args.vals["date"],
                OrElse(args, "next_date", Null),
                OrElse(args, "response", Null), OrElse(args, "note", Null),
                OrElse(args, "status", Null)>>)
       ELSE Return("Follow-up created. ID: ", results[1].insertId)

\* -------------------------------------------------------------- marks

record_marks_shape ==
  [student_id |-> Req("number"), exam_id |-> Req("number"),
   subject_id |-> Req("number"), class_id |-> Req("number"),
   section_id |-> Req("number"), mark |-> Req("number"),
   absent |-> Opt("boolean")]

markKey == <<"student_id", "exam_id", "subject_id", "class_id", "section_id">>

\* SELECT id FROM mark WHERE <key> AND session_id = 4, then UPDATE mark SET
\* mark = ?, absent = ? WHERE id = ? of the first row found, or INSERT INTO
\* mark (.., session_id, mark, absent) VALUES (.., 4, ?, ?).
record_marks(args, results) ==
  LET issues == zodIssues(record_marks_shape, "", {}, args)
      key == [i \in 1..Len(markKey) |-> args.vals[markKey[i]]]
      absent == IF Truthy(args, "absent") THEN 1 ELSE 0
  IN IF issues # {} THEN ThrowZod(issues)
     ELSE IF Len(results) = 0
       THEN ExecuteCols("SELECT_MARK", "mark", markKey, key)
     ELSE IF Len(results) = 1
       THEN IF Len(results[1].rows) > 0
              THEN ExecuteCols("UPDATE", "mark", <<"mark", "absent">>,
                               <<args.vals["mark"], absent,
                                 results[1].rows[1].id>>)
              ELSE ExecuteCols("INSERT", "mark",
                               markKey \o <<"session_id", "mark", "absent">>,
                               key \o <<4, args.vals["mark"], absent>>)
     ELSE IF Len(results[1].rows) > 0
       THEN Return("Marks updated.", Null)
       ELSE Return("Marks recorded.", Null)

\* ------------------------------------------------- reception configs

\* z.enum(["call_purpose", "complaint_type", "enquiry_reference",
\* "enquiry_response", "visitor_purpose"])
ReceptionConfigTypes ==
  {"call_purpose", "complaint_type", "enquiry_reference",
   "enquiry_response", "visitor_purpose"}

\* The strings a caller sends as `type`: args.vals["type"] is the position
\* of the string in this list.  The last three are names of other tables.
TypeStrings ==
  <<"call_purpose", "complaint_type", "enquiry_reference",
    "enquiry_response", "visitor_purpose", "student", "staff",
    "login_credential">>

typeOf(args) == TypeStrings[args.vals["type"]]

\* `type` parsed as z.string(): any string passes.
enumIssues_anyString(args) == {}

\* The issue z.enum reports for a `type` outside the five values.
enumIssues(args) ==
  IF "type" \in DOMAIN args.kinds /\ args.kinds["type"] = "string"
       /\ typeOf(args) \notin ReceptionConfigTypes
    THEN {"type"} ELSE {}

list_reception_configs_shape ==
  [type |-> Req("string"), branch_id |-> Opt("number")]

\* `SELECT id, name FROM ${parsed.type}`, with " WHERE branch_id = ?" when
\* parsed.branch_id is truthy (Null: no WHERE clause).
list_reception_configs(args, results) ==
  LET issues == zodIssues(list_reception_configs_shape, "", {}, args)
                  \cup enumIssues(args)
  IN IF issues # {} THEN ThrowZod(issues)
     ELSE IF Len(results) = 0
       THEN Execute("SELECT_CONFIGS", typeOf(args),
                    <<OrElse(args, "branch_id", Null)>>)
       ELSE ReturnRows(results[1].rows)

create_reception_config_shape ==
  [type |-> Req("string"), name |-> Req("string"),
   branch_id |-> Opt("number")]

\* `INSERT INTO ${parsed.type} (name, branch_id) VALUES (?, ?)`
create_reception_config(args, results) ==
  LET issues == zodIssues(create_reception_config_shape, "", {}, args)
                  \cup enumIssues(args)
  IN IF issues # {} THEN ThrowZod(issues)
     ELSE IF Len(results) = 0
       THEN ExecuteCols("INSERT", typeOf(args), <<"name", "branch_id">>,
              <<args.vals["name"], OrElse(args, "branch_id", 1)>>)
       ELSE Return("Configuration added to " \o typeOf(args) \o ". ID: ",
                   results[1].insertId)

delete_reception_config_shape ==
  [type |-> Req("string"), id |-> Req("number")]

\* `DELETE FROM ${parsed.type} WHERE id = ?`
delete_reception_config(args, results) ==
  LET issues == zodIssues(delete_reception_config_shape, "", {}, args)
                  \cup enumIssues(args)
  IN IF issues # {} THEN ThrowZod(issues)
     ELSE IF Len(results) = 0
       THEN Execute("DELETE", typeOf(args), <<args.vals["id"]>>)
       ELSE Return("Configuration deleted from " \o typeOf(args) \o ".",
                   args.vals["id"])

\* The switch matching names without regard to case.
switch_anyCase(name, args, results) ==
  CASE name = "create_product_category" ->
         create_product_category(args, results)
    [] name = "create_postal_record" -> create_postal_record(args, results)
    [] name \in {"create_purchase", "Create_Purchase"} ->
         create_purchase(args, results)
    [] name = "create_product_issue" -> create_product_issue(args, results)
    [] name = "bulk_collect_fees" -> bulk_collect_fees(args, results)
    [] name = "create_student" -> create_student(args, results)
    [] name = "update_inquiry" -> update_inquiry(args, results)
    [] name = "update_visitor_log" -> update_visitor_log(args, results)
    [] name = "create_grade" -> create_grade(args, results)
    [] name = "update_student" -> update_student(args, results)
    [] name = "update_staff" -> update_staff(args, results)
    [] name = "list_inquiries" -> list_inquiries(args, results)
    [] name = "list_transactions" -> list_transactions(args, results)
    [] name = "list_students" -> list_students(args, results)
    [] name = "create_inquiry" -> create_inquiry(args, results)
    [] name = "read_inquiry" -> read_inquiry(args, results)
    [] name = "delete_inquiry" -> delete_inquiry(args, results)
    [] name = "read_call_log" -> read_call_log(args, results)
    [] name = "delete_call_log" -> delete_call_log(args, results)
    [] name = "get_student" -> get_student(args, results)
    [] name = "mark_staff_attendance" ->
         mark_staff_attendance(args, results)
    [] name = "create_staff_leave" -> create_staff_leave(args, results)
    [] name = "create_student_leave" -> create_student_leave(args, results)
    [] name = "approve_staff_leave" -> approve_staff_leave(args, results)
    [] name = "approve_student_leave" ->
         approve_student_leave(args, results)
    [] name = "allocate_fees" -> allocate_fees(args, results)
    [] name = "collect_fees" -> collect_fees(args, results)
    [] name = "get_student_fee_status" ->
         get_student_fee_status(args, results)
    [] name = "set_fee_status" -> set_fee_status(args, results)
    [] name = "bulk_delete_inquiries" ->
         bulk_delete_inquiries(args, results)
    [] name = "create_inquiry_follow_up" ->
         create_inquiry_follow_up(args, results)
    [] name = "update_product_stock" -> update_product_stock(args, results)
    [] name = "record_marks" -> record_marks(args, results)
    [] name = "list_reception_configs" ->
         list_reception_configs(args, results)
    [] name = "create_reception_config" ->
         create_reception_config(args, results)
    [] name = "delete_reception_config" ->
         delete_reception_config(args, results)
    [] OTHER -> ThrowMcp(name)

\* The switch of the CallTool handler (first matching case).
switch(name, args, results) ==
  CASE name = "create_product_category" ->
         create_product_category(args, results)
    [] name = "create_postal_record" -> create_postal_record(args, results)
    [] name = "create_purchase" -> create_purchase(args, results)
    [] name = "create_product_issue" -> create_product_issue(args, results)
    [] name = "bulk_collect_fees" -> bulk_collect_fees(args, results)
    [] name = "create_student" -> create_student(args, results)
    [] name = "update_inquiry" -> update_inquiry(args, results)
    [] name = "update_visitor_log" -> update_visitor_log(args, results)
    [] name = "create_grade" -> create_grade(args, results)
    [] name = "update_student" -> update_student(args, results)
    [] name = "update_staff" -> update_staff(args, results)
    [] name = "list_inquiries" -> list_inquiries(args, results)
    [] name = "list_transactions" -> list_transactions(args, results)
    [] name = "list_students" -> list_students(args, results)
    [] name = "create_inquiry" -> create_inquiry(args, results)
    [] name = "read_inquiry" -> read_inquiry(args, results)
    [] name = "delete_inquiry" -> delete_inquiry(args, results)
    [] name = "read_call_log" -> read_call_log(args, results)
    [] name = "delete_call_log" -> delete_call_log(args, results)
    [] name = "get_student" -> get_student(args, results)
    [] name = "mark_staff_attendance" ->
         mark_staff_attendance(args, results)
    [] name = "create_staff_leave" -> create_staff_leave(args, results)
    [] name = "create_student_leave" -> create_student_leave(args, results)
    [] name = "approve_staff_leave" -> approve_staff_leave(args, results)
    [] name = "approve_student_leave" ->
         approve_student_leave(args, results)
    [] name = "allocate_fees" -> allocate_fees(args, results)
    [] name = "collect_fees" -> collect_fees(args, results)
    [] name = "get_student_fee_status" ->
         get_student_fee_status(args, results)
    [] name = "set_fee_status" -> set_fee_status(args, results)
    [] name = "bulk_delete_inquiries" ->
         bulk_delete_inquiries(args, results)
    [] name = "create_inquiry_follow_up" ->
         create_inquiry_follow_up(args, results)
    [] name = "update_product_stock" -> update_product_stock(args, results)
    [] name = "record_marks" -> record_marks(args, results)
    [] name = "list_reception_configs" ->
         list_reception_configs(args, results)
    [] name = "create_reception_config" ->
         create_reception_config(args, results)
    [] name = "delete_reception_config" ->
         delete_reception_config(args, results)
    [] OTHER -> ThrowMcp(name)

NoEnvelope ==
  [isError |-> FALSE, text |-> "", id |-> Null, paths |-> {}, arg |-> "",
   rows |-> <<>>]

\* The catch without the isError flag.
catch_noFlag(message, paths, arg) ==
  [isError |-> FALSE, text |-> "Error: " \o message, id |-> Null,
   paths |-> paths, arg |-> arg, rows |-> <<>>]

\* The catch of the CallTool handler: `Error: ${errorMessage}`, isError.
catch(message, paths, arg) ==
  [isError |-> TRUE, text |-> "Error: " \o message, id |-> Null,
   paths |-> paths, arg |-> arg, rows |-> <<>>]

\* ------------------------------------------------------------- state

VARIABLES
  transport,      \* module-level `transport`: 0 (null) or the client whose
                  \* GET /sse created the current SSEServerTransport
  connected,      \* clients that have opened GET /sse
  defaultApiKey,  \* SqlProxy.defaultApiKey (RAMOM_API_KEY || "")
  reqs,           \* the POST /messages requests received so far
  calls,          \* per request, the axios.post calls SqlProxy.execute
                  \* has made on its behalf, in order
  db,             \* the backing database: table -> rows in insertion order
  stock           \* product.available_stock by product id

vars == <<transport, connected, defaultApiKey, reqs, calls, db, stock>>

Tables ==
  {"product_category", "postal_record", "purchase_bill",
   "purchase_bill_details", "product_issues", "product_issues_details",
   "fee_payment_history", "student", "enroll", "login_credential",
   "enquiry", "enquiry_follow_up", "visitor_log", "call_log", "grade",
   "staff", "transactions", "staff_attendance", "staff_leave",
   "student_leave", "fee_allocation", "fee_groups_details", "mark"}
  \cup ReceptionConfigTypes

\* Tables whose rows the model keeps column by column: row i of the table
\* is the row with id i (AUTO_INCREMENT never reuses an id), a deleted row
\* leaves the record without columns in its place.
RowTables ==
  {"enquiry", "visitor_log", "call_log", "grade", "student", "staff",
   "transactions", "staff_attendance", "staff_leave", "student_leave",
   "mark"}
  \cup ReceptionConfigTypes

Deleted == [c \in {} |-> 0]

Exists(d, table, id) ==
  /\ table \in RowTables
  /\ id \in 1..Len(d[table])
  /\ DOMAIN d[table][id] # {}

Products == {1, 2}

\* -------------------------------------------------------------- SqlProxy

\* A single module-level variable in place of the AsyncLocalStorage: it
\* holds the api_key of the request that called storage.run last.
getStore_shared(r) == reqs[Len(reqs)].api_key

\* storage.getStore() inside request r: AsyncLocalStorage hands every
\* asynchronous continuation of storage.run(apiKey, ..) the apiKey of the
\* run that started it.
getStore(r) == reqs[r].api_key

\* execute sending the request-scoped value whatever it is.
apiKey_noFallback(r) == getStore(r)

\* const apiKey = storage.getStore() || this.defaultApiKey
apiKey(r) == IF getStore(r) # "" THEN getStore(r) ELSE defaultApiKey

\* The backing service executing one statement on the database.
\* The rows of staff_attendance that hold the (staff_id, date) of the row
\* the statement inserts.
duplicateKey(d, stmt) ==
  {i \in 1..Len(d[stmt.table]) :
     /\ DOMAIN d[stmt.table][i] # {}
     /\ d[stmt.table][i].staff_id = stmt.params[1]
     /\ d[stmt.table][i].date = stmt.params[2]}

\* The rows of stmt.table whose columns stmt.cols hold stmt.params, in the
\* current session.
matchingRows(d, stmt) ==
  {i \in 1..Len(d[stmt.table]) :
     /\ DOMAIN d[stmt.table][i] # {}
     /\ d[stmt.table][i].session_id = 4
     /\ \A c \in 1..Len(stmt.cols) :
          d[stmt.table][i][stmt.cols[c]] = stmt.params[c]}

\* The k-th smallest member of a set of row ids.
nth(S, k) == CHOOSE i \in S : Cardinality({j \in S : j < i}) = k - 1

\* The session the fee queries select: `session_id = 4`.
CurrentSession == 4

RECURSIVE Sum(_)
Sum(seq) == IF seq = <<>> THEN 0 ELSE Head(seq) + Sum(Tail(seq))

\* fee_allocation rows (by id) of a student in the current session:
\* WHERE fa.student_id = ? AND fa.session_id = 4.
sessionAllocations(d, student) ==
  {i \in 1..Len(d["fee_allocation"]) :
     /\ d["fee_allocation"][i].student_id = student
     /\ d["fee_allocation"][i].session_id = CurrentSession}

\* fee_allocation fa JOIN fee_groups_details gd ON fa.group_id =
\* gd.fee_groups_id for the student's allocations from id i on: one row
\* (allocation_id, fee_type_id, gd.amount + fa.prev_due) per fee type.
RECURSIVE studentDues(_, _, _)
studentDues(d, student, i) ==
  IF i > Len(d["fee_allocation"]) THEN <<>>
  ELSE LET fa == d["fee_allocation"][i]
           gds == SelectSeq(d["fee_groups_details"],
                            LAMBDA gd : gd.fee_groups_id = fa.group_id)
       IN (IF i \in sessionAllocations(d, student)
             THEN [k \in 1..Len(gds) |->
                     [allocation_id |-> i,
                      fee_type_id |-> gds[k].fee_type_id,
                      total_due |-> gds[k].amount + fa.prev_due]]
             ELSE <<>>)
          \o studentDues(d, student, i + 1)

\* fee_payment_history h JOIN fee_allocation a ON h.allocation_id = a.id
\* WHERE a.student_id = ? AND a.session_id = 4.
studentPayments(d, student) ==
  SelectSeq(d["fee_payment_history"],
            LAMBDA h : /\ DOMAIN h # {}
                       /\ h.allocation_id \in sessionAllocations(d, student))

\* SUM(gd.amount + fa.prev_due): NULL when no row has an amount.
totalAllocated(d, student) ==
  LET dues == studentDues(d, student, 1)
  IN IF dues = <<>> THEN Null
     ELSE Sum([k \in 1..Len(dues) |-> dues[k].total_due])

\* SUM(amount + discount) / SUM(amount) over a list of payments: NULL when
\* the list is empty.
sumPaid(payments, withDiscount) ==
  IF payments = <<>> THEN Null
  ELSE Sum([k \in 1..Len(payments) |->
              payments[k].amount
                + (IF withDiscount THEN payments[k].discount ELSE 0)])

\* Verbs of the statements that return rows.
ReadVerbs ==
  {"SELECT", "LIST", "SELECT_ALLOCS", "SELECT_PAID", "FEE_STATUS",
   "SELECT_CONFIGS", "SELECT_STOCK", "SELECT_MARK"}

\* The rows (by id) a DELETE on enquiry or enquiry_follow_up removes:
\* follow-ups are selected by enquiry_id, inquiries by id, and the
\* parameters are the identifiers of WHERE .. = ? / IN (?, ..).
deletedRows(d, stmt) ==
  LET ids == {stmt.params[k] : k \in 1..Len(stmt.params)}
  IN {i \in 1..Len(d[stmt.table]) :
        /\ DOMAIN d[stmt.table][i] # {}
        /\ IF stmt.table = "enquiry_follow_up"
             THEN d[stmt.table][i].enquiry_id \in ids
             ELSE i \in ids}

\* The columns a row gets from its table definition when the INSERT does
\* not name them: status DEFAULT 'pending' and the nullable approved_by and
\* remarks of staff_leave and student_leave.
columnDefaults(table) ==
  IF table \in {"staff_leave", "student_leave"}
    THEN [status |-> Pending, approved_by |-> Null, remarks |-> Null]
  ELSE IF table = "fee_payment_history"
    THEN [discount |-> 0, fine |-> 0]
    ELSE [c \in {} |-> 0]

applyDb(d, stmt) ==
  LET cols == stmt.cols
      id == stmt.params[Len(stmt.params)]
  IN CASE stmt.verb = "INSERT" /\ cols = <<>> ->
            [d EXCEPT ![stmt.table] = Append(@, stmt.params)]
       [] stmt.verb = "INSERT" /\ cols # <<>> ->
            [d EXCEPT ![stmt.table] =
               Append(@, [c \in {cols[i] : i \in 1..Len(cols)}
                                 \cup DOMAIN columnDefaults(stmt.table) |->
                            IF \E i \in 1..Len(cols) : cols[i] = c
                              THEN stmt.params[CHOOSE i \in 1..Len(cols) :
                                                 cols[i] = c]
                              ELSE columnDefaults(stmt.table)[c]])]
       [] stmt.verb = "UPDATE" /\ Exists(d, stmt.table, id) ->
            \* SET col = ? for the columns that come with a parameter; a
            \* column set to NOW() is not kept in the row
            [d EXCEPT ![stmt.table][id] =
               [c \in DOMAIN @ |->
                  IF \E i \in 1..(Len(stmt.params) - 1) : cols[i] = c
                    THEN stmt.params[CHOOSE i \in 1..(Len(stmt.params) - 1) :
                                       cols[i] = c]
                    ELSE @[c]]]
       [] stmt.verb = "DELETE" /\ Exists(d, stmt.table, id) ->
            [d EXCEPT ![stmt.table][id] = Deleted]
       [] stmt.verb = "UPSERT" ->
            \* INSERT ... ON DUPLICATE KEY UPDATE under UNIQUE KEY
            \* unique_attendance (staff_id, date): the row that has the
            \* key gets the two trailing parameters, else a row is added
            IF duplicateKey(d, stmt) # {}
              THEN [d EXCEPT ![stmt.table][CHOOSE i \in duplicateKey(d, stmt) :
                                             TRUE] =
                      [@ EXCEPT !.status = stmt.params[5],
                                !.remark = stmt.params[6]]]
              ELSE [d EXCEPT ![stmt.table] =
                      Append(@, [staff_id |-> stmt.params[1],
                                 date |-> stmt.params[2],
                                 status |-> stmt.params[3],
                                 remark |-> stmt.params[4]])]
       [] \/ stmt.verb = "DELETE_IN"
          \/ stmt.verb = "DELETE" /\ stmt.table = "enquiry_follow_up" ->
            [d EXCEPT ![stmt.table] =
               [i \in 1..Len(@) |->
                  IF i \in deletedRows(d, stmt) THEN Deleted ELSE @[i]]]
       [] stmt.verb = "DELETE_PAYMENTS" ->
            \* DELETE h FROM fee_payment_history h JOIN fee_allocation fa
            \* ON h.allocation_id = fa.id WHERE fa.student_id = ? AND
            \* fa.session_id = 4
            [d EXCEPT ![stmt.table] =
               [i \in 1..Len(@) |->
                  IF /\ DOMAIN @[i] # {}
                     /\ @[i].allocation_id
                          \in sessionAllocations(d, stmt.params[1])
                    THEN Deleted ELSE @[i]]]
       [] OTHER -> d

\* NULL in product.available_stock.
NullStock == -1000

\* UPDATE product SET available_stock = available_stock +/- ? WHERE id = ?
\* run by the service.  The parameter undefined travels as JSON null, and
\* in SQL a sum with NULL is NULL.
applyStock(st, stmt) ==
  IF stmt.verb \in {"ADD_STOCK", "SUB_STOCK"} /\ stmt.params[2] \in Products
    THEN [st EXCEPT ![stmt.params[2]] =
            IF @ = NullStock \/ stmt.params[1] = Null THEN NullStock
            ELSE IF stmt.verb = "ADD_STOCK" THEN @ + stmt.params[1]
                                            ELSE @ - stmt.params[1]]
  ELSE IF stmt.verb = "SET_STOCK" /\ stmt.params[2] \in Products
    \* UPDATE product SET available_stock = ? WHERE id = ?
    THEN [st EXCEPT ![stmt.params[2]] = stmt.params[1]]
    ELSE st

\* The rows a SELECT with LIMIT limit OFFSET offset returns of those its
\* WHERE clause selects; Null is a clause the statement does not have.
window(rows, limit, offset) ==
  LET from == IF offset = Null THEN 0 ELSE offset
      upTo == IF limit = Null \/ from + limit > Len(rows)
                THEN Len(rows) ELSE from + limit
  IN SubSeq(rows, from + 1, upTo)

\* The result the service returns for a statement: the rows of a SELECT,
\* the write result (OkPacket) of any other statement.
okPacket(stmt) ==
  CASE stmt.verb = "INSERT" ->
         [insertId |-> Len(db[stmt.table]) + 1, affectedRows |-> 1,
          rows |-> <<>>]
    [] \/ stmt.verb = "DELETE_IN"
       \/ stmt.verb = "DELETE" /\ stmt.table = "enquiry_follow_up" ->
         [insertId |-> 0,
          affectedRows |-> Cardinality(deletedRows(db, stmt)),
          rows |-> <<>>]
    [] \/ stmt.verb = "UPDATE"
       \/ stmt.verb = "DELETE" /\ stmt.table # "enquiry_follow_up" ->
         [insertId |-> 0,
          affectedRows |->
            IF Exists(db, stmt.table, stmt.params[Len(stmt.params)])
              THEN 1 ELSE 0,
          rows |-> <<>>]
    [] stmt.verb = "UPSERT" ->
         [insertId |-> IF duplicateKey(db, stmt) # {}
                         THEN CHOOSE i \in duplicateKey(db, stmt) : TRUE
                         ELSE Len(db[stmt.table]) + 1,
          affectedRows |-> IF duplicateKey(db, stmt) # {} THEN 2 ELSE 1,
          rows |-> <<>>]
    [] stmt.verb = "SELECT" ->
         \* SELECT ... WHERE id = ?
         [insertId |-> 0, affectedRows |-> 0,
          rows |-> IF Exists(db, stmt.table, stmt.params[1])
                     THEN <<db[stmt.table][stmt.params[1]]>> ELSE <<>>]
    [] stmt.verb = "LIST" ->
         \* SELECT ... [LIMIT limit [OFFSET offset]]
         [insertId |-> 0, affectedRows |-> 0,
          rows |-> window(SelectSeq(db[stmt.table],
                                    LAMBDA row : DOMAIN row # {}),
                          stmt.params[1], stmt.params[2])]
    [] stmt.verb = "SELECT_MARK" ->
         \* SELECT id FROM mark WHERE student_id = ? AND exam_id = ? AND
         \* subject_id = ? AND class_id = ? AND section_id = ? AND
         \* session_id = 4
         [insertId |-> 0, affectedRows |-> 0,
          rows |-> [k \in 1..Cardinality(matchingRows(db, stmt)) |->
                      [id |-> nth(matchingRows(db, stmt), k)]]]
    [] stmt.verb = "SELECT_STOCK" ->
         \* SELECT available_stock FROM product WHERE id = ?
         [insertId |-> 0, affectedRows |-> 0,
          rows |-> IF stmt.params[2] \in Products
                     THEN <<[available_stock |-> stock[stmt.params[2]]]>>
                     ELSE <<>>]
    [] stmt.verb = "SELECT_CONFIGS" ->
         \* SELECT id, name FROM <table> [WHERE branch_id = ?]
         [insertId |-> 0, affectedRows |-> 0,
          rows |-> SelectSeq(db[stmt.table],
                     LAMBDA row : /\ DOMAIN row # {}
                                  /\ stmt.params[1] # Null =>
                                       (/\ "branch_id" \in DOMAIN row
                                        /\ row.branch_id = stmt.params[1]))]
    [] stmt.verb = "SELECT_ALLOCS" ->
         [insertId |-> 0, affectedRows |-> 0,
          rows |-> studentDues(db, stmt.params[1], 1)]
    [] stmt.verb = "SELECT_PAID" ->
         \* SELECT SUM(amount + discount) as paid FROM fee_payment_history
         \* WHERE allocation_id = ? AND type_id = ?
         [insertId |-> 0, affectedRows |-> 0,
          rows |-> <<[paid |->
                       sumPaid(SelectSeq(db[stmt.table],
                                 LAMBDA h : /\ DOMAIN h # {}
                                            /\ h.allocation_id = stmt.params[1]
                                            /\ h.type_id = stmt.params[2]),
                               TRUE)]>>]
    [] stmt.verb = "FEE_STATUS" ->
         \* the one row of the aggregate query of get_student_fee_status
         [insertId |-> 0, affectedRows |-> 0,
          rows |-> <<[total_allocated |->
                        totalAllocated(db, stmt.params[1]),
                      total_paid_with_discount |->
                        sumPaid(studentPayments(db, stmt.params[1]), TRUE),
                      total_paid_only |->
                        sumPaid(studentPayments(db, stmt.params[1]),
                                FALSE)]>>]
    [] stmt.verb = "DELETE_PAYMENTS" ->
         [insertId |-> 0,
          affectedRows |-> Len(studentPayments(db, stmt.params[1])),
          rows |-> <<>>]
    [] OTHER ->
         [insertId |-> 0,
          affectedRows |-> IF stmt.params[2] \in Products THEN 1 ELSE 0,
          rows |-> <<>>]

\* response.data of an HTTP-200 answer: an array (kind "array", its rows),
\* an object (kind "object", with its status, message, insertId and
\* affectedRows, "" and Null for a key it does not have), null, a bare
\* string or a number.
NoBody ==
  [kind |-> "", status |-> "", message |-> "", rows |-> <<>>,
   insertId |-> Null, affectedRows |-> Null]

\* The body with which the service answers a statement it has executed.
properBody(stmt) ==
  [kind |-> IF stmt.verb \in ReadVerbs THEN "array" ELSE "object",
   status |-> "", message |-> "", rows |-> okPacket(stmt).rows,
   insertId |-> IF stmt.verb \in ReadVerbs
                  THEN Null ELSE okPacket(stmt).insertId,
   affectedRows |-> IF stmt.verb \in ReadVerbs
                      THEN Null ELSE okPacket(stmt).affectedRows]

\* The status check of execute that lets every body pass.
responseCheck_ignoreStatus(data) ==
  IF data.kind = "null"
    THEN "Cannot read properties of null (reading 'status')"
    ELSE ""

\* if (data.status === 'error') throw new Error(data.message || 'Unknown
\* database error'): the message of the error thrown inside the try of
\* execute, "" when nothing is thrown.  Reading .status of null throws a
\* TypeError; of a string or a number it yields undefined.
responseCheck(data) ==
  CASE data.kind = "null" ->
         "Cannot read properties of null (reading 'status')"
    [] data.kind = "object" /\ data.status = "error" ->
         IF data.message # "" THEN data.message ELSE "Unknown database error"
    [] OTHER -> ""

\* return [data, []] for an array, [data, undefined] for anything else:
\* the handler reads rows, insertId and affectedRows off data.  A string
\* has a length and a first character and a number has no length, so
\* `rows.length === 0` is false for both and rows[0] is read.
resultOf(data) ==
  [kind |-> data.kind, status |-> data.status, message |-> data.message,
   rows |-> IF data.kind \in {"string", "number"}
              THEN <<[c \in {} |-> 0]>> ELSE data.rows,
   insertId |-> data.insertId, affectedRows |-> data.affectedRows,
   fields |-> IF data.kind = "array" THEN "[]" ELSE "undefined"]

\* The ways axios.post / the response check of execute can fail, with the
\* message of the Error that reaches the catch of execute.
Failures ==
  {"status_error",   \* HTTP 200, body {status:'error', message}
   "http_error",     \* axios.post rejects, the statement never ran
   "response_lost"}  \* axios.post rejects after the service ran the
                     \* statement (connection lost before the response)

\* throw new Error(`Database operation failed: ${error.message}`)
executeError(failure) ==
  "Database operation failed: " \o
     (CASE failure = "status_error" -> "Unknown database error"
        [] failure = "http_error" -> "Request failed"
        [] OTHER -> "socket hang up")

\* -------------------------------------------------------- CallTool step

\* Run the CallTool handler of request r from its last await, `results`
\* being the results of the executes completed so far, up to its next
\* await of pool.execute or to its response.
Continue(r, results) ==
  LET q == reqs[r]
      s == switch(q.name, q.args, results)
  IN IF s.op = "execute"
       THEN /\ reqs' = [reqs EXCEPT ![r] =
                          [q EXCEPT !.results = results,
                                    !.state = "awaiting", !.stmt = s.stmt]]
            /\ calls' = [calls EXCEPT ![r] =
                          Append(@, [key |-> apiKey(r), stmt |-> s.stmt])]
       ELSE /\ reqs' = [reqs EXCEPT ![r] =
                          [q EXCEPT !.results = results,
                                    !.state = "responded", !.stmt = NoStmt,
                                    !.thrown =
                                      IF s.op = "throw" THEN s.error ELSE "",
                                    !.response =
                                      IF s.op = "throw"
                                        THEN catch(s.text, s.paths, s.arg)
                                        ELSE [isError |-> FALSE,
                                              text |-> s.text, id |-> s.id,
                                              paths |-> {}, arg |-> "",
                                              rows |-> s.rows]]]
            /\ calls' = calls

\* ------------------------------------------------------------- actions

\* app.get('/sse'): transport = new SSEServerTransport(.., res);
\* server.connect(transport).
GetSse(c) ==
  /\ c \notin connected
  /\ transport' = c
  /\ connected' = connected \cup {c}
  /\ UNCHANGED <<defaultApiKey, reqs, calls, db, stock>>

\* The client of stream c goes away, the handler clearing the module-level
\* transport that served it.
Disconnect_clearTransport(c) ==
  /\ c \in connected
  /\ connected' = connected \ {c}
  /\ transport' = IF transport = c THEN 0 ELSE transport
  /\ UNCHANGED <<defaultApiKey, reqs, calls, db, stock>>

\* The client of stream c goes away: its response stream closes.  No
\* handler of app.get('/sse') is registered for the close, and transport is
\* assigned nowhere else.
Disconnect(c) ==
  /\ c \in connected
  /\ connected' = connected \ {c}
  /\ UNCHANGED <<transport, defaultApiKey, reqs, calls, db, stock>>

\* app.post('/messages') of client c with ?api_key=key carrying a
\* tools/call request: 400 when transport is null, else
\* storage.run(apiKey, () => transport.handlePostMessage(req, res)).
PostMessages(c, key, name, args) ==
  /\ Len(reqs) < MaxPosts
  /\ connected # {} => c \in connected
  /\ reqs' = Append(reqs,
       [client |-> c, api_key |-> key, name |-> name, args |-> args,
        results |-> <<>>, stmt |-> NoStmt, response |-> NoEnvelope,
        thrown |-> "", refused |-> NoBody, via |-> transport,
        state |-> IF transport = 0 THEN "rejected" ELSE "received"])
  /\ calls' = Append(calls, <<>>)
  /\ UNCHANGED <<transport, connected, defaultApiKey, db, stock>>

\* A client that sends its tools/call requests one after the other: the
\* next POST /messages comes when every earlier one has been answered.
PostNext(name, args) ==
  /\ Len(reqs) < MaxCalls
  /\ \A r \in 1..Len(reqs) : reqs[r].state = "responded"
  /\ reqs' = Append(reqs,
       [client |-> 1, api_key |-> "k1", name |-> name, args |-> args,
        results |-> <<>>, stmt |-> NoStmt, response |-> NoEnvelope,
        thrown |-> "", refused |-> NoBody, via |-> transport,
        state |-> IF transport = 0 THEN "rejected" ELSE "received"])
  /\ calls' = Append(calls, <<>>)
  /\ UNCHANGED <<transport, connected, defaultApiKey, db, stock>>

\* The transport hands the parsed message to the server, which invokes the
\* CallTool handler: validation and the handler body up to its first await.
HandleMessage(r) ==
  /\ reqs[r].state = "received"
  /\ Continue(r, <<>>)
  /\ UNCHANGED <<transport, connected, defaultApiKey, db, stock>>

\* The pending execute of request r succeeds: the service runs the
\* statement and the handler resumes with the result.
ExecuteOk(r) ==
  /\ reqs[r].state = "awaiting"
  /\ db' = applyDb(db, reqs[r].stmt)
  /\ stock' = applyStock(stock, reqs[r].stmt)
  /\ Continue(r, Append(reqs[r].results, okPacket(reqs[r].stmt)))
  /\ UNCHANGED <<transport, connected, defaultApiKey>>

\* ExecuteFail with a compensating rollback of everything written so far.
ExecuteFail_rollback(r, failure) ==
  /\ reqs[r].state = "awaiting"
  /\ reqs' = [reqs EXCEPT ![r] =
                [@ EXCEPT !.state = "responded", !.stmt = NoStmt,
                          !.thrown = "Error",
                          !.response = catch(executeError(failure), {}, "")]]
  /\ db' = [t \in DOMAIN db |-> <<>>]
  /\ stock' = [p \in DOMAIN stock |-> 0]
  /\ UNCHANGED <<transport, connected, defaultApiKey, calls>>

\* The service answers the pending execute of request r with HTTP 200 and
\* the body data.  (It has run the statement when data is the statement's
\* proper body.)
ExecuteRespond(r, data) ==
  /\ reqs[r].state = "awaiting"
  /\ db' = IF data = properBody(reqs[r].stmt)
             THEN applyDb(db, reqs[r].stmt) ELSE db
  /\ stock' = IF data = properBody(reqs[r].stmt)
                THEN applyStock(stock, reqs[r].stmt) ELSE stock
  /\ IF responseCheck(data) # ""
       THEN /\ reqs' = [reqs EXCEPT ![r] =
                  [@ EXCEPT !.state = "responded", !.stmt = NoStmt,
                            !.thrown = "Error", !.refused = data,
                            !.response =
                              catch("Database operation failed: "
                                      \o responseCheck(data), {}, "")]]
            /\ calls' = calls
       ELSE Continue(r, Append(reqs[r].results, resultOf(data)))
  /\ UNCHANGED <<transport, connected, defaultApiKey>>

\* The pending execute of request r throws: no handler catches it, so it
\* reaches the catch of the CallTool handler.
ExecuteFail(r, failure) ==
  /\ reqs[r].state = "awaiting"
  /\ reqs' = [reqs EXCEPT ![r] =
                [@ EXCEPT !.state = "responded", !.stmt = NoStmt,
                          !.thrown = "Error",
                          !.response = catch(executeError(failure), {}, "")]]
  /\ db' = IF failure = "response_lost" THEN applyDb(db, reqs[r].stmt)
                                         ELSE db
  /\ stock' = IF failure = "response_lost"
                THEN applyStock(stock, reqs[r].stmt) ELSE stock
  /\ UNCHANGED <<transport, connected, defaultApiKey, calls>>

\* -------------------------------------------------------------- inputs

ApiKeys == {"", "k1", "k2"}       \* ?api_key= of a request ("" = absent)
DefaultKeys == {"k0"}         \* RAMOM_API_KEY of the process

Restrict(f, S) == [x \in (DOMAIN f) \cap S |-> f[x]]

OtherType(t) == IF t = "string" THEN "number" ELSE "string"

SeqsUpTo(S, n) == UNION {[1..k -> S] : k \in 0..n}

\* Line items: two well-formed ones, an object without the item fields,
\* and null.
ItemPool ==
  {[product_id |-> 1, quantity |-> 2, unit_price |-> 3],
   [product_id |-> 2, quantity |-> 1, unit_price |-> 2],
   [note |-> 0],
   [null |-> 0]}

\* Payments (the date string is written as its digits): two well-formed
\* ones and one without amount.
PaymentPool ==
  {[allocation_id |-> 1, type_id |-> 1, amount |-> 5, date |-> 20260201],
   [allocation_id |-> 2, type_id |-> 1, amount |-> 3, date |-> 20260202],
   [allocation_id |-> 1, type_id |-> 1, date |-> 20260201]}

arrayField(name) ==
  CASE name \in {"create_purchase", "create_product_issue"} -> "items"
    [] name = "bulk_collect_fees" -> "payments"
    [] OTHER -> ""

\* The argument objects tried for an advertised tool: every advertised
\* property, the required ones only, either with one property left out,
\* and every property given with another type.
KindVariants(schema) ==
  LET P == schema.properties
      R == schema.required
  IN {P, Restrict(P, R)}
     \cup {Restrict(P, (DOMAIN P) \ {f}) : f \in DOMAIN P}
     \cup {Restrict(P, R \ {f}) : f \in R}
     \cup {[P EXCEPT ![f] = OtherType(@)] : f \in DOMAIN P}

ElemsFor(name, kinds) ==
  IF arrayField(name) \in DOMAIN kinds /\ kinds[arrayField(name)] = "array"
    THEN SeqsUpTo(IF name = "bulk_collect_fees" THEN PaymentPool
                                                ELSE ItemPool, MaxItems)
    ELSE {<<>>}

\* Names that are in no tool definition.
UnknownNames == {"no_such_tool", "Create_Purchase"}

ToolNames == (DOMAIN tools) \cup UnknownNames

CallArgs(name) ==
  IF name \in DOMAIN tools
    THEN {[kinds |-> k, elems |-> e] :
            <<k, e>> \in {<<k, e>> \in KindVariants(tools[name]) \X
                            SeqsUpTo(ItemPool \cup PaymentPool, MaxItems) :
                          e \in ElemsFor(name, k)}}
    ELSE {[kinds |-> Restrict(create_purchase_inputSchema.properties, {}),
           elems |-> <<>>],
          [kinds |-> create_purchase_inputSchema.properties,
           elems |-> <<[product_id |-> 1, quantity |-> 2,
                        unit_price |-> 3]>>]}

\* The call made while several requests are in flight: a well-formed
\* bulk_collect_fees with two payments (two statements).
ConcurrentCalls ==
  {[name |-> "bulk_collect_fees",
    args |-> [kinds |-> Restrict(bulk_collect_fees_inputSchema.properties,
                                 {"payments"}),
              elems |-> <<[allocation_id |-> 1, type_id |-> 1, amount |-> 5,
                           date |-> 20260201],
                          [allocation_id |-> 2, type_id |-> 1, amount |-> 3,
                           date |-> 20260202]>>]]}

\* The execute failure tried while several requests are in flight.
ConcurrentFailures == {"http_error"}

\* ------------------------------------------------------- specifications

EmptyDb == [t \in Tables |-> <<>>]

Init ==
  /\ transport = 0
  /\ connected = {}
  /\ defaultApiKey \in DefaultKeys
  /\ reqs = <<>>
  /\ calls = <<>>
  /\ db = EmptyDb
  /\ stock = [p \in Products |-> 0]

Next ==
  \/ \E c \in Clients : GetSse(c)
  \/ \E c \in Clients, key \in ApiKeys, call \in ConcurrentCalls :
       PostMessages(c, key, call.name, call.args)
  \/ \E r \in 1..Len(reqs) : HandleMessage(r)
  \/ \E r \in 1..Len(reqs) : ExecuteOk(r)
  \/ \E r \in 1..Len(reqs), failure \in ConcurrentFailures :
       ExecuteFail(r, failure)

\* Several clients and requests in flight, well-formed calls.
Spec == Init /\ [][Next]_vars

\* One tools/call request of a connected client, over every tool name and
\* argument object of CallArgs.
InitDispatch ==
  /\ transport = 1
  /\ connected = {1}
  /\ defaultApiKey = "k0"
  /\ \E name \in ToolNames : \E args \in CallArgs(name) :
       reqs = <<[client |-> 1, api_key |-> "k1", name |-> name,
                 args |-> args, results |-> <<>>, stmt |-> NoStmt,
                 response |-> NoEnvelope, thrown |-> "",
                 refused |-> NoBody, via |-> 1,
                 state |-> "received"]>>
  /\ calls = <<(<<>>)>>
  /\ db = EmptyDb
  /\ stock = [p \in Products |-> 0]

NextDispatch ==
  \/ \E r \in 1..Len(reqs) : HandleMessage(r)
  \/ \E r \in 1..Len(reqs) : ExecuteOk(r)
  \/ \E r \in 1..Len(reqs), failure \in Failures : ExecuteFail(r, failure)

SpecDispatch == InitDispatch /\ [][NextDispatch]_vars

\* ------------------------------------------------ single-entity calls

\* Names of the columns the model keeps for a row of each row table.
Columns(table) ==
  CASE table = "enquiry" ->
         {"name", "mobile_no", "father_name", "mother_name", "email",
          "address", "response", "note", "status"}
    [] table = "visitor_log" ->
         {"name", "number", "purpose_id", "date", "entry_time", "exit_time",
          "number_of_visitor", "id_number", "token_pass", "note"}
    [] table = "grade" ->
         {"name", "grade_point", "lower_mark", "upper_mark", "remark",
          "branch_id"}
    [] table = "staff_attendance" -> {"staff_id", "date", "status", "remark"}
    [] OTHER -> {"name"}

\* A row as it is stored before the call: every column holds 9, a value
\* no call supplies.
StoredRow(table) == [c \in Columns(table) |-> 9]

\* Every row table holds rows 1 and 2; no table has a row 3.
StoredDb ==
  [t \in Tables |-> IF t \in RowTables THEN <<StoredRow(t), StoredRow(t)>>
                                       ELSE <<>>]

\* The values tried for a field: an identifier names row 1 or the missing
\* row 3 (0 for the optional grade_id), a mandatory field is 7, an optional
\* one is its falsy value 0 or 7.
FieldValues(shape, f) ==
  CASE f = "id" -> {1, 3}
    [] f = "grade_id" -> {0, 1, 3}
    [] ~shape[f].optional -> {7}
    [] OTHER -> {0, 7}

\* Type-valid argument objects of a shape: every mandatory field and at
\* most MaxSupplied of the optional ones.
EntityArgs(shape) ==
  LET R == {f \in DOMAIN shape : ~shape[f].optional}
      O == (DOMAIN shape) \ R
  IN UNION {
       {[kinds |-> [f \in R \cup S |-> shape[f].type], elems |-> <<>>,
         vals |-> v] :
          v \in {w \in [R \cup S -> {0, 1, 3, 7}] :
                   \A f \in R \cup S : w[f] \in FieldValues(shape, f)}} :
       S \in {T \in SUBSET O : Cardinality(T) <= MaxSupplied}}

EntityShapes ==
  [update_inquiry |-> update_inquiry_shape,
   update_visitor_log |-> update_visitor_log_shape,
   create_grade |-> create_grade_shape,
   update_student |-> update_student_shape,
   update_staff |-> update_staff_shape]

ListShapes ==
  [list_inquiries |-> list_inquiries_shape,
   list_transactions |-> list_transactions_shape,
   list_students |-> list_students_shape]

\* The argument objects tried for a list handler: limit (0, 1 or 3) and
\* offset (0 or 1), each supplied or not, where the handler parses them.
ListArgs(shape) ==
  UNION {
    {[kinds |-> [f \in S |-> "number"], elems |-> <<>>, vals |-> v] :
       v \in {w \in [S -> {0, 1, 3}] :
                "offset" \in S => w["offset"] \in {0, 1}}} :
    S \in SUBSET ({"limit", "offset"} \cap DOMAIN shape)}

\* Handlers that take the identifier of one entity and nothing else.
ByIdTools ==
  {"read_inquiry", "delete_inquiry", "read_call_log", "delete_call_log",
   "get_student"}

EntityCalls ==
  UNION {{[name |-> name, args |-> args] :
            args \in EntityArgs(EntityShapes[name])} :
         name \in DOMAIN EntityShapes}
  \cup
  UNION {{[name |-> name, args |-> args] :
            args \in ListArgs(ListShapes[name])} :
         name \in DOMAIN ListShapes}
  \cup
  {[name |-> name, args |-> args] :
     name \in ByIdTools, args \in EntityArgs(by_id_shape)}

\* One tools/call request of a connected client for a tool that reads,
\* updates, deletes or lists stored entities, over a database that holds
\* rows 1 and 2 of every table.
InitEntity ==
  /\ transport = 1
  /\ connected = {1}
  /\ defaultApiKey = "k0"
  /\ \E call \in EntityCalls :
       reqs = <<[client |-> 1, api_key |-> "k1", name |-> call.name,
                 args |-> call.args, results |-> <<>>, stmt |-> NoStmt,
                 response |-> NoEnvelope, thrown |-> "",
                 refused |-> NoBody, via |-> 1,
                 state |-> "received"]>>
  /\ calls = <<(<<>>)>>
  /\ db = StoredDb
  /\ stock = [p \in Products |-> 0]

SpecEntity == InitEntity /\ [][NextDispatch]_vars

\* ------------------------------------------- one client, call after call

InquiryArgs(name, v) ==
  [kinds |-> [name |-> "string", mobile_no |-> "string", date |-> "string"],
   elems |-> <<>>,
   vals |-> [name |-> name, mobile_no |-> v, date |-> 20260201]]

ByIdArgs(id) ==
  [kinds |-> [id |-> "number"], elems |-> <<>>, vals |-> [id |-> id]]

\* Two inquiries of different names, and reads and deletes of the first
\* identifier.
InquiryCalls ==
  {[name |-> "create_inquiry", args |-> InquiryArgs(7, 5)],
   [name |-> "create_inquiry", args |-> InquiryArgs(8, 5)],
   [name |-> "read_inquiry", args |-> ByIdArgs(1)],
   [name |-> "delete_inquiry", args |-> ByIdArgs(1)]}

InitSession ==
  /\ transport = 1
  /\ connected = {1}
  /\ defaultApiKey = "k0"
  /\ reqs = <<>>
  /\ calls = <<>>
  /\ db = EmptyDb
  /\ stock = [p \in Products |-> 0]

NextInquiry ==
  \/ \E call \in InquiryCalls : PostNext(call.name, call.args)
  \/ \E r \in 1..Len(reqs) : HandleMessage(r)
  \/ \E r \in 1..Len(reqs) : ExecuteOk(r)
  \/ \E r \in 1..Len(reqs), failure \in ConcurrentFailures :
       ExecuteFail(r, failure)

SpecInquiry == InitSession /\ [][NextInquiry]_vars

\* Purchases and issues of product 1, and a purchase whose item names the
\* product but no quantity.
StockCalls ==
  {[name |-> "create_purchase",
    args |-> [kinds |-> create_purchase_inputSchema.properties,
              elems |-> <<[product_id |-> 1, quantity |-> 10,
                           unit_price |-> 100]>>]],
   [name |-> "create_product_issue",
    args |-> [kinds |-> create_product_issue_inputSchema.properties,
              elems |-> <<[product_id |-> 1, quantity |-> 2]>>]],
   [name |-> "create_purchase",
    args |-> [kinds |-> create_purchase_inputSchema.properties,
              elems |-> <<[product_id |-> 2, quantity |-> 1,
                           unit_price |-> 2],
                          [product_id |-> 1, quantity |-> 3,
                           unit_price |-> 2]>>]],
   [name |-> "create_purchase",
    args |-> [kinds |-> create_purchase_inputSchema.properties,
              elems |-> <<[product_id |-> 1, unit_price |-> 100]>>]]}

NextStock ==
  \/ \E call \in StockCalls : PostNext(call.name, call.args)
  \/ \E r \in 1..Len(reqs) : HandleMessage(r)
  \/ \E r \in 1..Len(reqs) : ExecuteOk(r)

\* One client purchasing and issuing, call after call, every statement
\* succeeding.
SpecStock == InitSession /\ [][NextStock]_vars

\* Attendance of staff 1 and 2 on one date: present without remarks,
\* absent with a remark.
AttendanceCalls ==
  {[name |-> "mark_staff_attendance",
    args |-> [kinds |-> [f \in DOMAIN v |-> IF f = "staff_id"
                                              THEN "number" ELSE "string"],
              elems |-> <<>>, vals |-> v]] :
     v \in {[staff_id |-> 1, date |-> 20260201, status |-> 1],
            [staff_id |-> 1, date |-> 20260201, status |-> 2, remarks |-> 7],
            [staff_id |-> 2, date |-> 20260201, status |-> 1],
            [staff_id |-> 2, date |-> 20260201, status |-> 2,
             remarks |-> 7]}}

NextAttendance ==
  \/ \E call \in AttendanceCalls : PostNext(call.name, call.args)
  \/ \E r \in 1..Len(reqs) : HandleMessage(r)
  \/ \E r \in 1..Len(reqs) : ExecuteOk(r)
  \/ \E r \in 1..Len(reqs), failure \in ConcurrentFailures :
       ExecuteFail(r, failure)

\* One client marking attendance, call after call.
SpecAttendance == InitSession /\ [][NextAttendance]_vars

\* Leave applications of staff 1 and student 1, and decisions on the first
\* application of either table: approved, rejected, approved with remarks,
\* and the value 'pending', which the enum of approve_staff_leave excludes.
LeaveCalls ==
  {[name |-> "create_staff_leave",
    args |-> [kinds |-> [staff_id |-> "number",
                         leave_category_id |-> "number",
                         start_date |-> "string", end_date |-> "string",
                         reason |-> "string"],
              elems |-> <<>>,
              vals |-> [staff_id |-> 1, leave_category_id |-> 1,
                        start_date |-> 20260201, end_date |-> 20260202,
                        reason |-> 7]]],
   [name |-> "create_student_leave",
    args |-> [kinds |-> [student_id |-> "number", start_date |-> "string",
                         end_date |-> "string", reason |-> "string"],
              elems |-> <<>>,
              vals |-> [student_id |-> 1, start_date |-> 20260201,
                        end_date |-> 20260202, reason |-> 7]]]}
  \cup
  {[name |-> "approve_staff_leave",
    args |-> [kinds |-> [leave_id |-> "number", status |-> "string"],
              elems |-> <<>>, vals |-> [leave_id |-> 1, status |-> s]]] :
     s \in {Pending, Approved, Rejected}}
  \cup
  {[name |-> "approve_student_leave",
    args |-> [kinds |-> [leave_id |-> "number", status |-> "string",
                         remarks |-> "string"],
              elems |-> <<>>,
              vals |-> [leave_id |-> 1, status |-> Approved,
                        remarks |-> 7]]]}

NextLeave ==
  \/ \E call \in LeaveCalls : PostNext(call.name, call.args)
  \/ \E r \in 1..Len(reqs) : HandleMessage(r)
  \/ \E r \in 1..Len(reqs) : ExecuteOk(r)

\* One client applying for leave and deciding applications, call after
\* call, every statement succeeding.
SpecLeave == InitSession /\ [][NextLeave]_vars

\* The fee demo data: fee group 1 with fee types 1 (amount 5) and 2
\* (amount 2), allocated to student 1 in session 4, and a partial payment
\* of 2 for fee type 1.
SeededFees ==
  [EmptyDb EXCEPT
     !["fee_groups_details"] =
        <<[fee_groups_id |-> 1, fee_type_id |-> 1, amount |-> 5],
          [fee_groups_id |-> 1, fee_type_id |-> 2, amount |-> 2]>>,
     !["fee_allocation"] =
        <<[student_id |-> 1, group_id |-> 1, branch_id |-> 1,
           session_id |-> 4, prev_due |-> 0]>>,
     !["fee_payment_history"] =
        <<[allocation_id |-> 1, type_id |-> 1, amount |-> 2, discount |-> 0,
           fine |-> 0, date |-> 20260205]>>]

FeeStatusArgs(student, status) ==
  [kinds |-> [student_id |-> "number", status |-> "string"], elems |-> <<>>,
   vals |-> [student_id |-> student, status |-> status]]

StudentArgs(student) ==
  [kinds |-> [student_id |-> "number"], elems |-> <<>>,
   vals |-> [student_id |-> student]]

\* Student 1: balance queries, Paid, Unpaid and a payment of 4 for fee
\* type 1.  Student 2: the allocation of fee group 1, then balance queries
\* and Paid.
FeeCalls ==
  {[name |-> "set_fee_status", args |-> FeeStatusArgs(1, Paid)],
   [name |-> "set_fee_status", args |-> FeeStatusArgs(1, Unpaid)],
   [name |-> "get_student_fee_status", args |-> StudentArgs(1)],
   [name |-> "collect_fees",
    args |-> [kinds |-> [allocation_id |-> "number", type_id |-> "number",
                         amount |-> "number", date |-> "string"],
              elems |-> <<>>,
              vals |-> [allocation_id |-> 1, type_id |-> 1, amount |-> 4,
                        date |-> 20260206]]],
   [name |-> "allocate_fees",
    args |-> [kinds |-> [student_id |-> "number", group_id |-> "number"],
              elems |-> <<>>, vals |-> [student_id |-> 2, group_id |-> 1]]],
   [name |-> "get_student_fee_status", args |-> StudentArgs(2)],
   [name |-> "set_fee_status", args |-> FeeStatusArgs(2, Paid)]}

InitFees ==
  /\ transport = 1
  /\ connected = {1}
  /\ defaultApiKey = "k0"
  /\ reqs = <<>>
  /\ calls = <<>>
  /\ db = SeededFees
  /\ stock = [p \in Products |-> 0]

NextFees ==
  \/ \E call \in FeeCalls : PostNext(call.name, call.args)
  \/ \E r \in 1..Len(reqs) : HandleMessage(r)
  \/ \E r \in 1..Len(reqs) : ExecuteOk(r)

\* One client working on the fees of students 1 and 2, call after call,
\* every statement succeeding.
SpecFees == InitFees /\ [][NextFees]_vars

\* Inquiries 1, 2 and 3 (named 1, 2, 3), with a follow-up of inquiry 1 and
\* one of inquiry 2; no inquiry 4.
InquiryDb ==
  [EmptyDb EXCEPT
     !["enquiry"] = [i \in 1..3 |-> [StoredRow("enquiry") EXCEPT !.name = i]],
     !["enquiry_follow_up"] =
        [i \in 1..2 |-> [enquiry_id |-> i, date |-> 20260201,
                         next_date |-> Null, response |-> Null,
                         note |-> Null, status |-> Null]]]

\* bulk_delete_inquiries with every list of at most MaxItems identifiers
\* out of 1..4, repetitions included.
BulkCalls ==
  {[name |-> "bulk_delete_inquiries",
    args |-> [kinds |-> [ids |-> "array"], elems |-> ids,
              vals |-> [c \in {} |-> 0]]] :
     ids \in SeqsUpTo(1..4, MaxItems)}

InitBulk ==
  /\ transport = 1
  /\ connected = {1}
  /\ defaultApiKey = "k0"
  /\ \E call \in BulkCalls :
       reqs = <<[client |-> 1, api_key |-> "k1", name |-> call.name,
                 args |-> call.args, results |-> <<>>, stmt |-> NoStmt,
                 response |-> NoEnvelope, thrown |-> "",
                 refused |-> NoBody, via |-> 1, state |-> "received"]>>
  /\ calls = <<(<<>>)>>
  /\ db = InquiryDb
  /\ stock = [p \in Products |-> 0]

\* One bulk_delete_inquiries request over the stored inquiries.
SpecBulk == InitBulk /\ [][NextDispatch]_vars

ReceptionTools ==
  {"list_reception_configs", "create_reception_config",
   "delete_reception_config"}

\* Calls of the three handlers with every string of TypeStrings as `type`
\* and with `type` left out, and calls of two handlers that assemble their
\* statement text at run time (update_inquiry, bulk_delete_inquiries).
ReceptionCalls ==
  {[name |-> "list_reception_configs",
    args |-> [kinds |-> [f \in DOMAIN v |-> IF f = "type" THEN "string"
                                                           ELSE "number"],
              elems |-> <<>>, vals |-> v]] :
     v \in {[type |-> t] : t \in 1..Len(TypeStrings)}
           \cup {[type |-> t, branch_id |-> 9] : t \in 1..Len(TypeStrings)}
           \cup {[branch_id |-> 9]}}
  \cup
  {[name |-> "create_reception_config",
    args |-> [kinds |-> [f \in DOMAIN v |-> "string"],
              elems |-> <<>>, vals |-> v]] :
     v \in {[type |-> t, name |-> 7] : t \in 1..Len(TypeStrings)}
           \cup {[name |-> 7]}}
  \cup
  {[name |-> "delete_reception_config",
    args |-> [kinds |-> [f \in DOMAIN v |-> IF f = "type" THEN "string"
                                                           ELSE "number"],
              elems |-> <<>>, vals |-> v]] :
     v \in {[type |-> t, id |-> i] : t \in 1..Len(TypeStrings), i \in {1, 3}}
           \cup {[id |-> 1]}}
  \cup
  {[name |-> "update_inquiry", args |-> args] :
     args \in EntityArgs(update_inquiry_shape)}
  \cup BulkCalls

InitReception ==
  /\ transport = 1
  /\ connected = {1}
  /\ defaultApiKey = "k0"
  /\ \E call \in ReceptionCalls :
       reqs = <<[client |-> 1, api_key |-> "k1", name |-> call.name,
                 args |-> call.args, results |-> <<>>, stmt |-> NoStmt,
                 response |-> NoEnvelope, thrown |-> "",
                 refused |-> NoBody, via |-> 1, state |-> "received"]>>
  /\ calls = <<(<<>>)>>
  /\ db = StoredDb
  /\ stock = [p \in Products |-> 0]

\* One request for a reception-config handler or for a handler that
\* assembles its statement text, over stored rows.
SpecReception == InitReception /\ [][NextDispatch]_vars

\* Adjustments of product 1 with well-formed items, and an absolute write
\* of its stock.
RaceCalls ==
  {[name |-> "create_purchase",
    args |-> [kinds |-> create_purchase_inputSchema.properties,
              elems |-> <<[product_id |-> 1, quantity |-> 10,
                           unit_price |-> 100]>>]],
   [name |-> "create_purchase",
    args |-> [kinds |-> create_purchase_inputSchema.properties,
              elems |-> <<[product_id |-> 2, quantity |-> 1,
                           unit_price |-> 2],
                          [product_id |-> 1, quantity |-> 3,
                           unit_price |-> 2]>>]],
   [name |-> "create_product_issue",
    args |-> [kinds |-> create_product_issue_inputSchema.properties,
              elems |-> <<[product_id |-> 1, quantity |-> 2]>>]],
   [name |-> "update_product_stock",
    args |-> [kinds |-> [product_id |-> "number",
                         available_stock |-> "string"],
              elems |-> <<>>,
              vals |-> [product_id |-> 1, available_stock |-> 7]]],
   [name |-> "update_product_stock",
    args |-> [kinds |-> [product_id |-> "number",
                         available_stock |-> "string"],
              elems |-> <<>>,
              vals |-> [product_id |-> 1, available_stock |-> 4]]]}

Received(call) ==
  [client |-> 1, api_key |-> "k1", name |-> call.name, args |-> call.args,
   results |-> <<>>, stmt |-> NoStmt, response |-> NoEnvelope,
   thrown |-> "", refused |-> NoBody, via |-> 1, state |-> "received"]

InitRace ==
  /\ transport = 1
  /\ connected = {1}
  /\ defaultApiKey = "k0"
  /\ \E c1 \in RaceCalls, c2 \in RaceCalls :
       reqs = <<Received(c1), Received(c2)>>
  /\ calls = <<(<<>>), (<<>>)>>
  /\ db = EmptyDb
  /\ stock = [p \in Products |-> 0]

NextRace ==
  \/ \E r \in 1..Len(reqs) : HandleMessage(r)
  \/ \E r \in 1..Len(reqs) : ExecuteOk(r)

\* Two tools/call requests received together, their handlers interleaving
\* at every await, every statement succeeding.
SpecRace == InitRace /\ [][NextRace]_vars

\* record_marks for student 1 with mark 5 or 9 and for student 2 with
\* mark 7, same exam, subject, class and section.
MarkCalls ==
  {[name |-> "record_marks",
    args |-> [kinds |-> [f \in {markKey[i] : i \in 1..Len(markKey)}
                               \cup {"mark"} |-> "number"],
              elems |-> <<>>,
              vals |-> [student_id |-> sm[1], exam_id |-> 1,
                        subject_id |-> 1, class_id |-> 1, section_id |-> 1,
                        mark |-> sm[2]]]] :
     sm \in {<<1, 5>>, <<1, 9>>, <<2, 7>>}}

InitMarks ==
  /\ transport = 1
  /\ connected = {1}
  /\ defaultApiKey = "k0"
  /\ \E c1 \in MarkCalls, c2 \in MarkCalls, c3 \in MarkCalls :
       reqs = <<Received(c1), Received(c2), Received(c3)>>
  /\ calls = <<(<<>>), (<<>>), (<<>>)>>
  /\ db = EmptyDb
  /\ stock = [p \in Products |-> 0]

\* Three record_marks requests received together, their handlers
\* interleaving at every await (one after the other included), every
\* statement succeeding.
SpecMarks == InitMarks /\ [][NextRace]_vars

FollowUpArgs(enquiry) ==
  [kinds |-> [enquiry_id |-> "number", date |-> "string"], elems |-> <<>>,
   vals |-> [enquiry_id |-> enquiry, date |-> 20260301]]

\* Deletes of stored and of missing inquiries, singly and in bulk, and new
\* follow-ups of inquiries 1 and 3.
OrphanCalls ==
  {[name |-> "delete_inquiry", args |-> ByIdArgs(id)] : id \in {1, 4}}
  \cup {[name |-> "bulk_delete_inquiries",
         args |-> [kinds |-> [ids |-> "array"], elems |-> ids,
                   vals |-> [c \in {} |-> 0]]] : ids \in {<<1, 2>>, <<3>>}}
  \cup {[name |-> "create_inquiry_follow_up", args |-> FollowUpArgs(e)] :
          e \in {1, 3}}

InitOrphan ==
  /\ transport = 1
  /\ connected = {1}
  /\ defaultApiKey = "k0"
  /\ \E c1 \in OrphanCalls, c2 \in OrphanCalls :
       reqs = <<Received(c1), Received(c2)>>
  /\ calls = <<(<<>>), (<<>>)>>
  /\ db = InquiryDb
  /\ stock = [p \in Products |-> 0]

\* Two requests on the stored inquiries received together, their handlers
\* interleaving at every await, every statement succeeding.
SpecOrphan == InitOrphan /\ [][NextRace]_vars

\* Clients opening GET /sse, going away and coming back, and POST /messages
\* with a new follow-up at any moment.
NextSse ==
  \/ \E c \in Clients : GetSse(c)
  \/ \E c \in Clients : Disconnect(c)
  \/ \E c \in Clients :
       PostMessages(c, "k1", "create_inquiry_follow_up", FollowUpArgs(1))
  \/ \E r \in 1..Len(reqs) : HandleMessage(r)
  \/ \E r \in 1..Len(reqs) : ExecuteOk(r)

SpecSse == Init /\ [][NextSse]_vars

\* ------------------------------------------- the service's answers

\* The bodies tried as the HTTP-200 answer to a statement: its proper body,
\* an application-level error with and without a message, and the
\* malformed bodies null, a bare string and a number.
Bodies(stmt) ==
  {properBody(stmt),
   [NoBody EXCEPT !.kind = "object", !.status = "error",
                  !.message = "Table 'enquiry' doesn't exist"],
   [NoBody EXCEPT !.kind = "object", !.status = "error"],
   [NoBody EXCEPT !.kind = "null"],
   [NoBody EXCEPT !.kind = "string"],
   [NoBody EXCEPT !.kind = "number"]}

\* A write, a read, a two-statement delete and a purchase of two items.
ProxyCalls ==
  {[name |-> "create_product_category",
    args |-> [kinds |-> create_product_category_inputSchema.properties,
              elems |-> <<>>]],
   [name |-> "read_inquiry", args |-> ByIdArgs(1)],
   [name |-> "delete_inquiry", args |-> ByIdArgs(1)],
   [name |-> "create_purchase",
    args |-> [kinds |-> create_purchase_inputSchema.properties,
              elems |-> <<[product_id |-> 1, quantity |-> 2,
                           unit_price |-> 3],
                          [product_id |-> 2, quantity |-> 1,
                           unit_price |-> 2]>>]]}

InitProxy ==
  /\ transport = 1
  /\ connected = {1}
  /\ defaultApiKey = "k0"
  /\ \E call \in ProxyCalls :
       reqs = <<[client |-> 1, api_key |-> "k1", name |-> call.name,
                 args |-> call.args, results |-> <<>>, stmt |-> NoStmt,
                 response |-> NoEnvelope, thrown |-> "",
                 refused |-> NoBody, via |-> 1, state |-> "received"]>>
  /\ calls = <<(<<>>)>>
  /\ db = StoredDb
  /\ stock = [p \in Products |-> 0]

NextProxy ==
  \/ \E r \in 1..Len(reqs) : HandleMessage(r)
  \/ \E r \in {x \in 1..Len(reqs) : reqs[x].state = "awaiting"} :
       \E data \in Bodies(reqs[r].stmt) : ExecuteRespond(r, data)

\* One tools/call request whose every execute is answered with HTTP 200
\* and any of Bodies.
SpecProxy == InitProxy /\ [][NextProxy]_vars

\* ============================================================== claims

InFlight(r) == reqs[r].state \in {"received", "awaiting"}

Handled(r) == reqs[r].state \in {"awaiting", "responded"}

\* C1 as stated: whenever two requests with different api_key values are in
\* flight together, every execute call made for either of them carries that
\* request's own api_key and not the other request's.
C1_OwnKeyAnyValue ==
  \A r1 \in 1..Len(reqs) : \A r2 \in 1..Len(reqs) :
    (r1 # r2 /\ InFlight(r1) /\ InFlight(r2)
       /\ reqs[r1].api_key # reqs[r2].api_key)
    => \A i \in 1..Len(calls[r1]) :
         /\ calls[r1][i].key = reqs[r1].api_key
         /\ calls[r1][i].key # reqs[r2].api_key

\* C1 (amended): whenever two requests with different non-empty api_key
\* values are in flight together, every execute call made for either of
\* them carries that request's own api_key and not the other request's.
C1_CredentialIsolation ==
  \A r1 \in 1..Len(reqs) : \A r2 \in 1..Len(reqs) :
    (r1 # r2 /\ InFlight(r1) /\ InFlight(r2)
       /\ reqs[r1].api_key # "" /\ reqs[r2].api_key # ""
       /\ reqs[r1].api_key # reqs[r2].api_key)
    => \A i \in 1..Len(calls[r1]) :
         /\ calls[r1][i].key = reqs[r1].api_key
         /\ calls[r1][i].key # reqs[r2].api_key

\* Two requests with different non-empty keys are in flight, the one posted
\* first has resumed after the other's storage.run and made its second
\* call, and the other has made a call too.
C1_Witness ==
  /\ Len(reqs) >= 2
  /\ InFlight(1) /\ InFlight(2)
  /\ reqs[1].api_key = "k1" /\ reqs[2].api_key = "k2"
  /\ Len(calls[1]) = 2
  /\ Len(calls[2]) >= 1

\* C2: a tool call POSTed by a client that has opened GET /sse is handled
\* on that client's own streaming connection, which also carries its
\* response.
C2_OwnConnection ==
  \A r \in 1..Len(reqs) :
    (reqs[r].state # "rejected" /\ reqs[r].client \in connected)
    => reqs[r].via = reqs[r].client

\* C3: whenever validation, a handler or SqlProxy.execute throws while a
\* tool call is handled, the call is answered with isError:true and a
\* non-empty text.
C3_NeverThrowsPast ==
  \A r \in 1..Len(reqs) :
    reqs[r].thrown # ""
    => /\ reqs[r].state = "responded"
       /\ reqs[r].response.isError
       /\ reqs[r].response.text # ""

\* An execute threw in the middle of a multi-statement handler and the call
\* was answered with the failure message.
C3_Witness ==
  \E r \in 1..Len(reqs) :
    /\ reqs[r].thrown = "Error"
    /\ Len(reqs[r].results) >= 1
    /\ reqs[r].state = "responded"
    /\ reqs[r].response.text =
         "Error: Database operation failed: Unknown database error"

\* The arguments satisfy the contract advertised for the tool: every
\* required property is supplied, every supplied property has the advertised
\* type, and every array element has the declared element fields.
SatisfiesContract(name, args) ==
  /\ name \in DOMAIN tools
  /\ tools[name].required \subseteq DOMAIN args.kinds
  /\ \A f \in DOMAIN args.kinds :
       f \in DOMAIN tools[name].properties
       => args.kinds[f] = tools[name].properties[f]
  /\ \A i \in 1..Len(args.elems) :
       declaredElementFields(name) \subseteq DOMAIN args.elems[i]

\* C4: no SqlProxy.execute call is made for a tool call whose arguments do
\* not satisfy the tool's advertised contract, line-item shape included.
C4_ValidationPrecedesIO ==
  \A r \in 1..Len(reqs) :
    calls[r] # <<>> => SatisfiesContract(reqs[r].name, reqs[r].args)

\* C5: a call to an advertised tool that supplies every advertised required
\* property, and nothing of a wrong type, is not rejected by validation.
C5_RequiredSuffices ==
  \A r \in 1..Len(reqs) :
    (Handled(r) /\ SatisfiesContract(reqs[r].name, reqs[r].args))
    => reqs[r].thrown # "ZodError"

\* C6: a call to an advertised tool that omits one of its advertised
\* required properties is rejected with a validation error naming that
\* property and executes no statement.
C6_MissingRequiredRejected ==
  \A r \in 1..Len(reqs) :
    \A f \in (IF reqs[r].name \in DOMAIN tools
                THEN tools[reqs[r].name].required ELSE {}) :
      (Handled(r) /\ f \notin DOMAIN reqs[r].args.kinds)
      => /\ reqs[r].thrown = "ZodError"
         /\ f \in reqs[r].response.paths
         /\ calls[r] = <<>>

\* C7: a call to a tool named in the advertised tool list is never answered
\* with 'Unknown tool'.
C7_AdvertisedIsHandled ==
  \A r \in 1..Len(reqs) :
    reqs[r].name \in DOMAIN tools => reqs[r].thrown # "McpError"

\* C8: a call whose name is not in the advertised tool list is answered in
\* its first step with isError:true and 'Unknown tool: <name>', and no
\* SqlProxy.execute call is made for it.
C8_UnknownTool ==
  \A r \in 1..Len(reqs) :
    (reqs[r].name \notin DOMAIN tools /\ reqs[r].state # "received")
    => /\ reqs[r].state = "responded"
       /\ reqs[r].response.isError
       /\ reqs[r].response.text = "Error: MCP error -32601: Unknown tool: "
       /\ reqs[r].response.arg = reqs[r].name
       /\ calls[r] = <<>>
       /\ db = EmptyDb

\* A call named Create_Purchase with well-formed create_purchase arguments
\* has been answered.
C8_Witness ==
  \E r \in 1..Len(reqs) :
    /\ reqs[r].name = "Create_Purchase"
    /\ reqs[r].args.elems # <<>>
    /\ reqs[r].state = "responded"

LineItemTools == {"create_purchase", "create_product_issue"}

headerTable(name) ==
  IF name = "create_purchase" THEN "purchase_bill" ELSE "product_issues"

detailTable(name) ==
  IF name = "create_purchase" THEN "purchase_bill_details"
                              ELSE "product_issues_details"

DetailCalls(r) ==
  SelectSeq(calls[r], LAMBDA c : c.stmt.table = detailTable(reqs[r].name))

\* C9: a create_purchase / create_product_issue call issues the header
\* insert first and once; every detail insert is issued after the header
\* insert has returned, references the returned identifier and carries the
\* items in the order supplied; a successful call with N items has issued
\* exactly N detail inserts and the N detail rows are stored in that order
\* under the stored header.
C9_Sequencing ==
  \A r \in 1..Len(reqs) :
    reqs[r].name \in LineItemTools
    => LET q == reqs[r]
           D == DetailCalls(r)
       IN /\ calls[r] # <<>>
               => /\ calls[r][1].stmt.verb = "INSERT"
                  /\ calls[r][1].stmt.table = headerTable(q.name)
          /\ \A i \in 2..Len(calls[r]) :
               calls[r][i].stmt.table # headerTable(q.name)
          /\ \A j \in 1..Len(D) :
               /\ Len(q.results) >= 1
               /\ j <= Len(q.args.elems)
               /\ D[j].stmt.verb = "INSERT"
               /\ D[j].stmt.params[1] = q.results[1].insertId
               /\ D[j].stmt.params[2] = Field(q.args.elems[j], "product_id")
          /\ (q.state = "responded" /\ ~q.response.isError)
               => /\ Len(D) = Len(q.args.elems)
                  /\ q.response.id = q.results[1].insertId
                  /\ q.response.id \in 1..Len(db[headerTable(q.name)])
                  /\ db[detailTable(q.name)] =
                       [j \in 1..Len(D) |-> D[j].stmt.params]

\* A create_purchase call with two different line items has succeeded.
C9_Witness ==
  \E r \in 1..Len(reqs) :
    /\ reqs[r].name = "create_purchase"
    /\ Len(reqs[r].args.elems) = 2
    /\ reqs[r].args.elems[1] # reqs[r].args.elems[2]
    /\ reqs[r].state = "responded"
    /\ ~reqs[r].response.isError

MultiStatementTools ==
  {"create_purchase", "create_product_issue", "bulk_collect_fees",
   "create_student"}

RECURSIVE dbAfter(_, _)
dbAfter(d, cs) ==
  IF cs = <<>> THEN d ELSE dbAfter(applyDb(d, Head(cs).stmt), Tail(cs))

RECURSIVE stockAfter(_, _)
stockAfter(st, cs) ==
  IF cs = <<>> THEN st
  ELSE stockAfter(applyStock(st, Head(cs).stmt), Tail(cs))

\* C10: when the k-th execute of a multi-statement handler throws, the call
\* is answered with isError:true and the failure message, the k-th call is
\* the last one issued, and the database holds the effects of statements
\* 1..k-1 (and of the k-th, if the service ran it before the failure):
\* nothing is rolled back and nothing later is executed.
C10_PartialFailure ==
  \A r \in 1..Len(reqs) :
    (reqs[r].name \in MultiStatementTools /\ reqs[r].thrown = "Error")
    => LET k == Len(calls[r])
           zero == [p \in Products |-> 0]
       IN /\ reqs[r].state = "responded"
          /\ reqs[r].response.isError
          /\ reqs[r].response.text \in
               {"Error: " \o executeError(f) : f \in Failures}
          /\ Len(reqs[r].results) = k - 1
          /\ \E n \in {k - 1, k} :
               /\ db = dbAfter(EmptyDb, SubSeq(calls[r], 1, n))
               /\ stock = stockAfter(zero, SubSeq(calls[r], 1, n))

\* The fourth statement of a create_purchase call (the detail insert of its
\* second item) failed after three statements had succeeded.
C10_Witness ==
  \E r \in 1..Len(reqs) :
    /\ reqs[r].name = "create_purchase"
    /\ reqs[r].thrown = "Error"
    /\ Len(calls[r]) = 4
    /\ Len(db["purchase_bill"]) = 1
    /\ Len(db["purchase_bill_details"]) = 1

\* ---- C11

\* Handlers that update one row of one table.
RowUpdateTools == {"update_inquiry", "update_visitor_log", "create_grade"}

idField(name) == IF name = "create_grade" THEN "grade_id" ELSE "id"

updatedTable(name) ==
  CASE name = "update_inquiry" -> "enquiry"
    [] name = "update_visitor_log" -> "visitor_log"
    [] name = "create_grade" -> "grade"
    [] name = "update_student" -> "student"
    [] OTHER -> "staff"

\* Request r is an update of a row: a type-valid call of an update handler
\* (of create_grade with a grade_id, its update path).
IsRowUpdate(r) ==
  /\ reqs[r].name \in RowUpdateTools
  /\ zodIssues(EntityShapes[reqs[r].name], "", {}, reqs[r].args) = {}
  /\ Truthy(reqs[r].args, idField(reqs[r].name))

\* The fields the call supplied besides the identifier.
Supplied(r) == (DOMAIN reqs[r].args.kinds) \ {idField(reqs[r].name)}

SetColumns(stmt) ==
  {stmt.cols[i] : i \in 1..Len(stmt.cols)} \ {"updated_at"}

\* C11 (partial-update law): a successfully answered update call that
\* supplied the set S of fields has sent one UPDATE statement whose SET
\* clause names exactly the columns of S, and the row it names then holds
\* the supplied value in every column of S and its stored value in every
\* other column.
C11_PartialUpdate ==
  \A r \in 1..Len(reqs) :
    (IsRowUpdate(r) /\ reqs[r].state = "responded"
       /\ ~reqs[r].response.isError) =>
      LET q == reqs[r]
          t == updatedTable(q.name)
          id == q.args.vals[idField(q.name)]
      IN /\ Supplied(r) # {} =>
              /\ Len(calls[r]) = 1
              /\ calls[r][1].stmt.verb = "UPDATE"
              /\ SetColumns(calls[r][1].stmt) = Supplied(r)
         /\ Exists(StoredDb, t, id) =>
              db[t][id] = [c \in Columns(t) |->
                             IF c \in Supplied(r) THEN q.args.vals[c]
                                                  ELSE StoredRow(t)[c]]

\* ---- C12

UpdateTools ==
  {"update_inquiry", "update_visitor_log", "update_student", "update_staff"}

\* The texts with which a handler reports that there was nothing to update.
NoOpTexts == {"No fields to update provided.", "No updates provided."}

\* C12 (no-op update): an update call that supplied the identifier and no
\* other field is answered with a nothing-to-update message and has sent no
\* statement.
C12_NoOpUpdate ==
  \A r \in 1..Len(reqs) :
    (reqs[r].name \in UpdateTools /\ DOMAIN reqs[r].args.kinds = {"id"}
       /\ reqs[r].state = "responded") =>
      /\ calls[r] = <<>>
      /\ ~reqs[r].response.isError
      /\ reqs[r].response.text \in NoOpTexts

\* ---- C13

ListTools == DOMAIN ListShapes

\* C13 (default pagination): the statement of a list call that supplied
\* neither limit nor offset has LIMIT 50 and offset 0 (an absent OFFSET
\* clause is offset 0), and a list call that supplied a limit is answered
\* with at most that many records.
C13_DefaultPagination ==
  \A r \in 1..Len(reqs) :
    (reqs[r].name \in ListTools /\ Handled(r)
       /\ reqs[r].thrown # "ZodError") =>
      LET q == reqs[r]
          stmt == calls[r][1].stmt
      IN /\ (DOMAIN q.args.kinds) \cap {"limit", "offset"} = {} =>
              /\ stmt.params[1] = 50
              /\ stmt.params[2] \in {0, Null}
         /\ ("limit" \in DOMAIN q.args.kinds /\ q.state = "responded"
               /\ ~q.response.isError) =>
              Len(q.response.rows) <= q.args.vals["limit"]

\* ---- C14

Succeeded(r) == reqs[r].state = "responded" /\ ~reqs[r].response.isError

\* Request r names identifier id and was answered by its handler (the
\* proxy did not fail under it).
AnsweredById(r, names, id) ==
  /\ reqs[r].name \in names
  /\ reqs[r].args.vals["id"] = id
  /\ reqs[r].state = "responded"
  /\ reqs[r].thrown # "Error"

NotFoundText == "Error: MCP error -32600: Inquiry with ID not found"

\* C14 (inquiry lifecycle): a successful create_inquiry returns a generated
\* identifier; a later read_inquiry of it, with no delete_inquiry of it in
\* between, returns a record with the created name; once a delete_inquiry
\* of it has succeeded, every later read_inquiry and delete_inquiry of it
\* is answered with the not-found error envelope.
C14_InquiryLifecycle ==
  \A a \in 1..Len(reqs) :
    (reqs[a].name = "create_inquiry" /\ Succeeded(a)) =>
      LET id == reqs[a].response.id
      IN /\ id >= 1
         /\ \A p \in 1..(a - 1) :
              (reqs[p].name = "create_inquiry" /\ Succeeded(p)) =>
                reqs[p].response.id # id
         /\ \A b \in (a + 1)..Len(reqs) :
              (/\ AnsweredById(b, {"read_inquiry"}, id)
               /\ \A c \in (a + 1)..(b - 1) :
                    reqs[c].name # "delete_inquiry") =>
                /\ Succeeded(b)
                /\ Len(reqs[b].response.rows) = 1
                /\ reqs[b].response.rows[1].name = reqs[a].args.vals["name"]
         /\ \A c \in (a + 1)..Len(reqs) :
              (reqs[c].name = "delete_inquiry" /\ Succeeded(c)
                 /\ reqs[c].args.vals["id"] = id) =>
                \A d \in (c + 1)..Len(reqs) :
                  AnsweredById(d, {"read_inquiry", "delete_inquiry"}, id) =>
                    /\ reqs[d].response.isError
                    /\ reqs[d].response.text = NotFoundText

\* create, read, delete and read again of one inquiry, all answered.
C14_Witness ==
  \E a, b, c, d \in 1..Len(reqs) :
    /\ a < b /\ b < c /\ c < d
    /\ reqs[a].name = "create_inquiry" /\ Succeeded(a)
    /\ AnsweredById(b, {"read_inquiry"}, reqs[a].response.id)
    /\ Succeeded(b)
    /\ AnsweredById(c, {"delete_inquiry"}, reqs[a].response.id)
    /\ Succeeded(c)
    /\ AnsweredById(d, {"read_inquiry"}, reqs[a].response.id)
    /\ reqs[d].response.text = NotFoundText

\* ---- C15

\* The table whose row the call names.
entityTable(name) ==
  CASE name \in {"read_inquiry", "delete_inquiry"} -> "enquiry"
    [] name \in {"read_call_log", "delete_call_log"} -> "call_log"
    [] name = "get_student" -> "student"
    [] OTHER -> updatedTable(name)

\* C15 (NotFound): a call of a handler that reads, updates or deletes one
\* entity by identifier (an update supplying at least one field), naming an
\* identifier no row has, is answered with isError:true.
C15_NotFound ==
  \A r \in 1..Len(reqs) :
    LET q == reqs[r]
    IN (/\ q.name \in ByIdTools \cup UpdateTools
        /\ q.name \in UpdateTools => DOMAIN q.args.kinds # {"id"}
        /\ q.state = "responded"
        /\ ~Exists(StoredDb, entityTable(q.name), q.args.vals["id"])) =>
         q.response.isError

\* ---- C16

\* C16 (credential fallback): every call SqlProxy.execute makes for a
\* request carries the request's api_key when that is non-empty and the
\* process default key when the request carried none or an empty one; no
\* step changes the default key.
C16_CredentialFallback ==
  /\ [](\A r \in 1..Len(reqs) : \A i \in 1..Len(calls[r]) :
          /\ reqs[r].api_key # "" => calls[r][i].key = reqs[r].api_key
          /\ reqs[r].api_key = "" => calls[r][i].key = defaultApiKey)
  /\ [][defaultApiKey' = defaultApiKey]_vars

\* Two requests have made calls, one with its own key and one, sent
\* without api_key, with the default key.
C16_Witness ==
  \E r, s \in 1..Len(reqs) :
    /\ reqs[r].api_key = "" /\ Len(calls[r]) > 0
    /\ calls[r][1].key = defaultApiKey
    /\ reqs[s].api_key # "" /\ Len(calls[s]) > 0
    /\ calls[s][1].key = reqs[s].api_key

\* ---- C17

\* C17 (response classification): a result execute returned for an array
\* body is the read result [rows, []] with the rows of the body; a result
\* it returned for an object body is the write result [data, undefined]
\* with the body's insertId and affectedRows; and a request under which
\* the service answered status 'error' was failed by execute with
\* `Database operation failed: ` and the service's message.
C17_Classification ==
  \A r \in 1..Len(reqs) :
    /\ \A i \in 1..Len(reqs[r].results) :
         LET res == reqs[r].results[i]
             sent == properBody(calls[r][i].stmt)
         IN /\ res.kind = "array" =>
                 res.fields = "[]" /\ res.rows = sent.rows
            /\ res.kind = "object" =>
                 /\ res.fields = "undefined"
                 /\ res.status # "error"
                 /\ res.insertId # Null /\ res.affectedRows # Null
    /\ (reqs[r].refused.kind = "object"
          /\ reqs[r].refused.status = "error") =>
         /\ reqs[r].state = "responded"
         /\ reqs[r].thrown = "Error"
         /\ reqs[r].response.isError
         /\ reqs[r].refused.message # "" =>
              reqs[r].response.text =
                "Error: Database operation failed: "
                  \o reqs[r].refused.message

\* A request whose first execute returned a write result for an object
\* body and whose second execute was answered with status 'error' and a
\* message.
C17_Witness ==
  \E r \in 1..Len(reqs) :
    /\ reqs[r].state = "responded"
    /\ reqs[r].refused.status = "error"
    /\ reqs[r].refused.message # ""
    /\ Len(reqs[r].results) = 1
    /\ reqs[r].results[1].kind = "object"
    /\ reqs[r].results[1].fields = "undefined"

\* ---- C18

\* C18 (malformed body): no result execute returned to a handler comes
\* from a body that is neither a JSON array nor a JSON object.
C18_MalformedBodyFails ==
  \A r \in 1..Len(reqs) : \A i \in 1..Len(reqs[r].results) :
    reqs[r].results[i].kind \in {"array", "object"}

\* ---- C19

\* The quantities of product p in a list of line items, added up (an item
\* without quantity adds nothing).
RECURSIVE quantityOf(_, _)
quantityOf(items, p) ==
  IF items = <<>> THEN 0
  ELSE (IF Field(Head(items), "product_id") = p
           /\ Field(Head(items), "quantity") # Null
          THEN Field(Head(items), "quantity") ELSE 0)
       + quantityOf(Tail(items), p)

\* Purchased minus issued quantity of product p over the first n requests.
RECURSIVE netQuantity(_, _)
netQuantity(n, p) ==
  IF n = 0 THEN 0
  ELSE netQuantity(n - 1, p)
       + (CASE reqs[n].name = "create_purchase" ->
                 quantityOf(reqs[n].args.elems, p)
            [] reqs[n].name = "create_product_issue" ->
                 0 - quantityOf(reqs[n].args.elems, p)
            [] OTHER -> 0)

\* C19 (stock bookkeeping): when every create_purchase and
\* create_product_issue call so far has been answered with success, each
\* product's available_stock is its initial stock (0) plus the purchased
\* minus the issued quantities.
C19_StockBookkeeping ==
  (\A r \in 1..Len(reqs) : Succeeded(r)) =>
    \A p \in Products : stock[p] = netQuantity(Len(reqs), p)

\* ---- C20

SameDay(r, s) ==
  /\ reqs[r].args.vals["staff_id"] = reqs[s].args.vals["staff_id"]
  /\ reqs[r].args.vals["date"] = reqs[s].args.vals["date"]

\* C20 (attendance upsert): staff_attendance never holds two records of
\* one (staff_id, date), and the record of a pair carries the status and
\* the remark of the most recent successful mark_staff_attendance call for
\* it ('' when that call gave no remarks).
C20_AttendanceUpsert ==
  LET att == db["staff_attendance"]
  IN /\ \A i, j \in 1..Len(att) :
          (att[i].staff_id = att[j].staff_id /\ att[i].date = att[j].date)
            => i = j
     /\ \A r \in 1..Len(reqs) :
          (/\ reqs[r].name = "mark_staff_attendance"
           /\ Succeeded(r)
           /\ \A s \in (r + 1)..Len(reqs) :
                ~(SameDay(r, s) /\ Succeeded(s))) =>
            \E i \in 1..Len(att) :
              /\ att[i].staff_id = reqs[r].args.vals["staff_id"]
              /\ att[i].date = reqs[r].args.vals["date"]
              /\ att[i].status = reqs[r].args.vals["status"]
              /\ att[i].remark = OrElse(reqs[r].args, "remarks", 0)

\* A second call for the same staff and date has replaced the status and
\* the remark of the first.
C20_Witness ==
  \E r, s \in 1..Len(reqs) :
    /\ r < s /\ SameDay(r, s) /\ Succeeded(r) /\ Succeeded(s)
    /\ reqs[r].args.vals["status"] # reqs[s].args.vals["status"]
    /\ Len(db["staff_attendance"]) = 1
    /\ db["staff_attendance"][1].status = reqs[s].args.vals["status"]

\* ---- C21

LeaveTables == {"staff_leave", "student_leave"}

leaveTable(name) ==
  IF name = "approve_staff_leave" THEN "staff_leave" ELSE "student_leave"

\* C21 (leave workflow): in every step, an application that is added to
\* staff_leave or student_leave has status pending; an application whose
\* status changes was pending and becomes approved or rejected; and an
\* approve_staff_leave / approve_student_leave call that is answered with
\* success named an application that existed and was pending.
C21_LeaveWorkflow ==
  [][/\ \A t \in LeaveTables :
          /\ \A i \in (Len(db[t]) + 1)..Len(db'[t]) :
               db'[t][i].status = Pending
          /\ \A i \in 1..Len(db[t]) :
               db'[t][i].status # db[t][i].status =>
                 /\ db[t][i].status = Pending
                 /\ db'[t][i].status \in {Approved, Rejected}
     /\ \A r \in 1..Len(reqs) :
          (/\ reqs[r].name \in {"approve_staff_leave",
                                "approve_student_leave"}
           /\ reqs[r].state = "awaiting"
           /\ reqs'[r].state = "responded"
           /\ ~reqs'[r].response.isError) =>
            /\ Exists(db, leaveTable(reqs[r].name),
                      reqs[r].args.vals["leave_id"])
            /\ db[leaveTable(reqs[r].name)]
                 [reqs[r].args.vals["leave_id"]].status = Pending]_vars

\* ---- C22

\* Total allocated minus total paid including discount, current session.
balance(d, student) ==
  OrZero(totalAllocated(d, student))
    - OrZero(sumPaid(studentPayments(d, student), TRUE))

\* The amounts of the payments request r has recorded.
recorded(r) ==
  Sum([i \in 1..Len(calls[r]) |->
         IF calls[r][i].stmt.verb = "INSERT" THEN calls[r][i].stmt.params[3]
                                             ELSE 0])

\* C22 (set_fee_status): when the last call, a set_fee_status, has been
\* answered with success: for 'Paid', the student's balance is 0 if it was
\* positive before the call; for 'Unpaid', the student has no payment
\* records in the current session and the balance is the total allocated.
C22_SetFeeStatus ==
  LET r == Len(reqs)
  IN (r > 0 /\ reqs[r].name = "set_fee_status" /\ Succeeded(r)) =>
       LET student == reqs[r].args.vals["student_id"]
       IN /\ (/\ reqs[r].args.vals["status"] = Paid
              /\ balance(db, student) + recorded(r) > 0) =>
               balance(db, student) = 0
          /\ reqs[r].args.vals["status"] = Unpaid =>
               /\ studentPayments(db, student) = <<>>
               /\ balance(db, student) = OrZero(totalAllocated(db, student))

\* ---- C24

\* The fee amounts of a fee group, added up.
groupAmount(d, group) ==
  LET gds == SelectSeq(d["fee_groups_details"],
                       LAMBDA gd : gd.fee_groups_id = group)
  IN Sum([k \in 1..Len(gds) |-> gds[k].amount])

\* C24 (allocation reflected): once allocate_fees(student, group) has
\* succeeded, a later successful get_student_fee_status(student) reports a
\* total_allocated of at least the group's fee amounts, and the first later
\* successful set_fee_status(student, 'Paid') has recorded a payment
\* against the new allocation.
C24_AllocationReflected ==
  \A a \in 1..Len(reqs) :
    (reqs[a].name = "allocate_fees" /\ Succeeded(a)) =>
      LET student == reqs[a].args.vals["student_id"]
          later(names) ==
            {b \in (a + 1)..Len(reqs) :
               /\ reqs[b].name \in names
               /\ reqs[b].args.vals["student_id"] = student
               /\ Succeeded(b)}
      IN /\ \A b \in later({"get_student_fee_status"}) :
              reqs[b].response.rows[1].total_allocated
                >= groupAmount(db, reqs[a].args.vals["group_id"])
         /\ \A c \in later({"set_fee_status"}) :
              (/\ reqs[c].args.vals["status"] = Paid
               /\ \A b \in later({"set_fee_status"}) : c <= b) =>
                \E i \in 1..Len(calls[c]) :
                  /\ calls[c][i].stmt.verb = "INSERT"
                  /\ calls[c][i].stmt.params[1] = reqs[a].response.id

\* ---- C23

\* The identifiers a bulk_delete_inquiries request names.
idsOf(r) == {reqs[r].args.elems[k] : k \in 1..Len(reqs[r].args.elems)}

\* C23 (bulk delete): a bulk_delete_inquiries request never changes an
\* inquiry whose id is not in ids; with an empty ids it makes no call to
\* the service; and when it has been answered with success for a non-empty
\* ids, exactly the stored inquiries with an id in ids are gone and the
\* number it reports is the number of inquiries it removed.
C23_BulkDelete ==
  \A r \in 1..Len(reqs) :
    reqs[r].name = "bulk_delete_inquiries" =>
      /\ \A i \in (1..Len(InquiryDb["enquiry"])) \ idsOf(r) :
           db["enquiry"][i] = InquiryDb["enquiry"][i]
      /\ Len(db["enquiry"]) = Len(InquiryDb["enquiry"])
      /\ reqs[r].args.elems = <<>> => calls[r] = <<>>
      /\ (Succeeded(r) /\ reqs[r].args.elems # <<>>) =>
           /\ \A i \in idsOf(r) : ~Exists(db, "enquiry", i)
           /\ reqs[r].response.id =
                Cardinality({i \in idsOf(r) : Exists(InquiryDb, "enquiry", i)})

\* A successful request that named a stored inquiry and an identifier no
\* inquiry has: it reports 1, the stored inquiry is gone, the others stay.
C23_Witness ==
  \E r \in 1..Len(reqs) :
    /\ reqs[r].name = "bulk_delete_inquiries" /\ Succeeded(r)
    /\ idsOf(r) = {1, 4}
    /\ reqs[r].response.id = 1
    /\ ~Exists(db, "enquiry", 1)
    /\ Exists(db, "enquiry", 2) /\ Exists(db, "enquiry", 3)

\* ---- C25

\* The table names in the literal statement texts of a handler.
literalTables(name) ==
  CASE name = "update_inquiry" -> {"enquiry"}
    [] name = "bulk_delete_inquiries" -> {"enquiry_follow_up", "enquiry"}
    [] OTHER -> {}

\* C25 (closed enum): the table named in every statement of
\* list_reception_configs, create_reception_config and
\* delete_reception_config is one of the five allow-listed names; a request
\* of theirs whose `type` is any other string makes no call to the service
\* and is answered with a validation error on `type`; and the statements of
\* the other handlers name only the tables of their literal texts.
C25_ClosedEnum ==
  \A r \in 1..Len(reqs) :
    /\ \A i \in 1..Len(calls[r]) :
         IF reqs[r].name \in ReceptionTools
           THEN calls[r][i].stmt.table \in ReceptionConfigTypes
           ELSE calls[r][i].stmt.table \in literalTables(reqs[r].name)
    /\ (/\ reqs[r].name \in ReceptionTools
        /\ "type" \in DOMAIN reqs[r].args.kinds
        /\ typeOf(reqs[r].args) \notin ReceptionConfigTypes) =>
         /\ calls[r] = <<>>
         /\ reqs[r].state = "responded" =>
              /\ reqs[r].response.isError
              /\ "type" \in reqs[r].response.paths

\* A delete_reception_config for visitor_purpose has run its DELETE on
\* that table and removed the row.
C25_Witness ==
  \E r \in 1..Len(reqs) :
    /\ reqs[r].name = "delete_reception_config" /\ Succeeded(r)
    /\ typeOf(reqs[r].args) = "visitor_purpose"
    /\ Len(calls[r]) = 1
    /\ calls[r][1].stmt.table = "visitor_purpose"
    /\ ~Exists(db, "visitor_purpose", 1)


\* ---- C26

StockWrites == {r \in 1..Len(reqs) : reqs[r].name = "update_product_stock"}

marksFor(d, r) ==
  {i \in 1..Len(d["mark"]) :
     /\ DOMAIN d["mark"][i] # {}
     /\ d["mark"][i].session_id = 4
     /\ \A c \in 1..Len(markKey) :
          d["mark"][i][markKey[c]] = reqs[r].args.vals[markKey[c]]}

\* C27: whenever a record_marks call completes, however its statements
\* interleaved with those of other record_marks calls, the mark table holds
\* exactly one row for its (student_id, exam_id, subject_id, class_id,
\* section_id) in the current session, and that row carries the call's mark.
C27_MarksUpsert ==
  [][\A r \in 1..Len(reqs) :
       (/\ reqs[r].name = "record_marks"
        /\ reqs[r].state = "awaiting" /\ reqs'[r].state = "responded"
        /\ ~reqs'[r].response.isError) =>
         /\ Cardinality(marksFor(db', r)) = 1
         /\ \A i \in marksFor(db', r) :
              db'["mark"][i].mark = reqs[r].args.vals["mark"]]_vars


\* ---- C28

\* The inquiries a delete request names.
deletedBy(r) ==
  IF reqs[r].name = "delete_inquiry" THEN {reqs[r].args.vals["id"]}
  ELSE {reqs[r].args.elems[k] : k \in 1..Len(reqs[r].args.elems)}

\* C28: when a delete_inquiry or bulk_delete_inquiries call completes
\* successfully, no enquiry_follow_up row references an inquiry it deleted,
\* also when a create_inquiry_follow_up runs concurrently.
C28_NoOrphanFollowUp ==
  [][\A r \in 1..Len(reqs) :
       (/\ reqs[r].name \in {"delete_inquiry", "bulk_delete_inquiries"}
        /\ reqs[r].state = "awaiting" /\ reqs'[r].state = "responded"
        /\ ~reqs'[r].response.isError) =>
         \A i \in 1..Len(db'["enquiry_follow_up"]) :
           DOMAIN db'["enquiry_follow_up"][i] # {} =>
             db'["enquiry_follow_up"][i].enquiry_id \notin deletedBy(r)]_vars


\* ---- C29

\* This step opens a GET /sse connection for client c.
Opens(c) == c \notin connected /\ connected' = connected \cup {c}

\* This step is a POST /messages.
Posts == Len(reqs') = Len(reqs) + 1

\* C29: the process starts without a transport; the transport changes
\* exactly when a GET /sse is opened, to the one created for it, and is
\* never reset to null, not when a client disconnects either; a POST
\* /messages is answered 400 'No active transport' exactly when there is no
\* transport, and is otherwise forwarded to the current one, the most
\* recently created.
C29_ActiveTransport ==
  /\ transport = 0
  /\ [][/\ \A c \in Clients : Opens(c) => transport' = c
        /\ transport' # transport => \E c \in Clients : Opens(c)
        /\ transport # 0 => transport' # 0
        /\ Posts =>
             /\ reqs'[Len(reqs')].state = "rejected" <=> transport = 0
             /\ reqs'[Len(reqs')].state # "rejected" =>
                  /\ reqs'[Len(reqs')].state = "received"
                  /\ reqs'[Len(reqs')].via = transport]_vars

\* A POST before any GET /sse was refused, and a POST made after the only
\* connected client went away was forwarded to the transport created for
\* it and handled.
C29_Witness ==
  /\ Len(reqs) = 2
  /\ reqs[1].state = "rejected"
  /\ connected = {}
  /\ transport # 0
  /\ reqs[2].via = transport
  /\ reqs[2].state = "responded"
  /\ reqs[2].client # transport

====
